---- MODULE Spec2Model ----
(***************************************************************************)
(* A model of the Lox tree-walking interpreter (scanner, parser, resolver, *)
(* interpreter and the command-line driver).                               *)
(*                                                                         *)
(* Python objects are modelled as records.  A raised exception is a result *)
(* kind: every operator that models a method which can raise returns a     *)
(* record with a field k, "ok" for a normal return and the exception's     *)
(* class otherwise.  Indices into Python lists are kept 0-based as in the  *)
(* source; element i of a Python list is element i + 1 of the sequence.   *)
(*                                                                         *)
(* A local name is a bound variable over a one-element set:                *)
(*   CHOOSE result \in {body : x \in {e}} : TRUE   is body with x = e,      *)
(*   \E x \in {e} : F                              is F with x = e;         *)
(* where several names are bound, the innermost line binds the first.      *)
(***************************************************************************)
EXTENDS Integers, Sequences, FiniteSets, TLC

VARIABLES
    argc,               \* len(sys.argv)
    stdin,              \* the lines of the standard input, for the prompt
    source,             \* the text given to _run, a sequence of characters
    pc,                 \* position in main / _run_file / _run_prompt / _run
    tokens,             \* the latest Scanner.scan_tokens() result
    statements,         \* Parser.parse() result
    parser,             \* the Parser object of _run after parse(), None before
    resolver,           \* the Resolver object of _run after resolve(), None before
    had_error,          \* common.had_error
    had_runtime_error,  \* common.had_runtime_error
    interp,             \* the module-level Interpreter object of lox.py
    stdout,             \* lines printed so far (print statements and diagnostics)
    next_stmt,          \* index of the next statement of the loop in interpret
    exit_code,          \* the process's exit status, -1 while it runs
    crash,              \* class of an uncaught host exception, "" when none
    flow                \* history: the stages of _run entered so far

vars == <<argc, stdin, source, pc, tokens, statements, parser, resolver, had_error,
          had_runtime_error,
          interp, stdout, next_stmt, exit_code, crash, flow>>

-----------------------------------------------------------------------------
(* Generic helpers *)

\* Python's None; Lox nil is the same object.
None == [t |-> "None"]

EmptyMap == [n \in {} |-> None]

\* dict[k] = v
Put(m, k, v) == [n \in (DOMAIN m) \cup {k} |-> IF n = k THEN v ELSE m[n]]

Min2(a, b) == IF a < b THEN a ELSE b

Abs(n) == IF n < 0 THEN 0 - n ELSE n

RECURSIVE Gcd(_, _)
Gcd(a, b) == IF b = 0 THEN a ELSE Gcd(b, a % b)

RECURSIVE Pow10(_)
Pow10(n) == IF n = 0 THEN 1 ELSE 10 * Pow10(n - 1)

DigitChars == <<"0", "1", "2", "3", "4", "5", "6", "7", "8", "9">>

\* str(n) for a natural number n
RECURSIVE NatToStr(_)
NatToStr(n) ==
    IF n < 10 THEN DigitChars[n + 1]
    ELSE NatToStr(n \div 10) \o DigitChars[(n % 10) + 1]

-----------------------------------------------------------------------------
(* Runtime values.  A Lox Number is a Python float; it is modelled as an   *)
(* exact fraction in lowest terms with a positive denominator.             *)

PyBool(b) == [t |-> "bool", v |-> b]
PyStr(s) == [t |-> "str", v |-> s]

Float(n, d) ==
    (CHOOSE result \in {(CHOOSE result \in {[t |-> "float", num |-> (sgn * n) \div g, den |-> (sgn * d) \div g]
    : sgn \in {IF d < 0 THEN 0 - 1 ELSE 1}} : TRUE)
    : g \in {Gcd(Abs(n), Abs(d))}} : TRUE)

IsFloat(v) == v.t = "float"
IsStr(v) == v.t = "str"
IsBool(v) == v.t = "bool"

-----------------------------------------------------------------------------
(* common.py: tokens and the diagnostic sink *)

KEYWORDS == {"and", "class", "else", "false", "for", "fun", "if", "nil", "or",
             "print", "return", "super", "this", "true", "var", "while"}

\* getattr(TokenType, k.upper()) for the keywords
Upper(k) ==
    CASE k = "and" -> "AND" [] k = "class" -> "CLASS" [] k = "else" -> "ELSE"
      [] k = "false" -> "FALSE" [] k = "for" -> "FOR" [] k = "fun" -> "FUN"
      [] k = "if" -> "IF" [] k = "nil" -> "NIL" [] k = "or" -> "OR"
      [] k = "print" -> "PRINT" [] k = "return" -> "RETURN"
      [] k = "super" -> "SUPER" [] k = "this" -> "THIS" [] k = "true" -> "TRUE"
      [] k = "var" -> "VAR" [] k = "while" -> "WHILE"

\* Token(token_type, lexeme, literal, line).  Token defines neither __eq__
\* nor __hash__, so two tokens are equal only when they are the same object:
\* id is the object's identity, its position in the scanner's token list.
Token(token_type, lexeme, literal, line, id) ==
    [token_type |-> token_type, lexeme |-> lexeme, literal |-> literal,
     line |-> line, id |-> id]

\* report(line, where, msg): prints one line and sets had_error.  d is any
\* record that carries the two process-wide fields had_error and stdout.
report(d, line, where, msg) ==
    [d EXCEPT !.had_error = TRUE,
              !.stdout = Append(@,
        "[line " \o NatToStr(line) \o "] Error" \o where \o ": " \o msg)]

\* error(line: int, msg)
error_line(d, line, msg) == report(d, line, "", msg)

\* error(token: Token, msg)
error_token(d, token, msg) ==
    IF token.token_type = "EOF"
    THEN report(d, token.line, " at end", msg)
    ELSE report(d, token.line, " at \"" \o token.lexeme \o "\"", msg)

-----------------------------------------------------------------------------
(* scanner.py *)

Digits == {"0", "1", "2", "3", "4", "5", "6", "7", "8", "9"}

Letters == {"a", "b", "c", "d", "e", "f", "g", "h", "i", "j", "k", "l", "m",
            "n", "o", "p", "q", "r", "s", "t", "u", "v", "w", "x", "y", "z",
            "A", "B", "C", "D", "E", "F", "G", "H", "I", "J", "K", "L", "M",
            "N", "O", "P", "Q", "R", "S", "T", "U", "V", "W", "X", "Y", "Z"}

\* The characters outside ASCII that str.isdigit accepts and float() does
\* not (the superscripts and other digits that are not decimal digits); each
\* is written here by its Unicode name.
OtherDigits == {"SUPERSCRIPT TWO"}

\* str.isdigit, str.isalpha, str.isalnum on one character or on ''
isdigit(c) == c \in Digits \cup OtherDigits
isalpha(c) == c \in Letters
isalnum(c) == c \in Digits \cup OtherDigits \cup Letters

DigitVal(c) == CHOOSE n \in 0..9 : DigitChars[n + 1] = c

\* source[a:b] as a string
RECURSIVE Slice(_, _, _)
Slice(src, a, b) == IF a >= b THEN "" ELSE src[a + 1] \o Slice(src, a + 1, b)

\* int() of the digits of source[a:b], skipping the decimal point
RECURSIVE DigitsValue(_, _, _, _)
DigitsValue(src, a, b, acc) ==
    IF a >= b THEN acc
    ELSE IF src[a + 1] = "." THEN DigitsValue(src, a + 1, b, acc)
    ELSE DigitsValue(src, a + 1, b, 10 * acc + DigitVal(src[a + 1]))

\* the number of characters of source[a:b] after its decimal point
RECURSIVE FractionDigits(_, _, _)
FractionDigits(src, a, b) ==
    IF a >= b THEN 0
    ELSE IF src[a + 1] = "." THEN b - (a + 1)
    ELSE FractionDigits(src, a + 1, b)

\* whether float(source[a:b]) returns: it raises ValueError on a digit that
\* is not a decimal digit
FloatAccepts(src, a, b) ==
    \A i \in (a + 1)..b : src[i] \in Digits \cup {"."}

\* float(source[a:b]) for digit+ ('.' digit+)?
ParseFloat(src, a, b) ==
    Float(DigitsValue(src, a, b, 0), Pow10(FractionDigits(src, a, b)))

\* Scanner(source).  had_error and stdout are the process-wide diagnostic
\* state; base is the number of Token objects created before this scanner;
\* exc is the class of the host exception that left the scanner, "" when
\* none did.
Scanner(src, d, base) ==
    [source |-> src, tokens |-> <<>>, start |-> 0, current |-> 0, line |-> 1,
     had_error |-> d.had_error, stdout |-> d.stdout, base |-> base,
     exc |-> ""]

Scanner_is_at_end(sc) == sc.current >= Len(sc.source)

\* _advance: the character returned is Scanner_peek of the state before
Scanner_advance(sc) == [sc EXCEPT !.current = @ + 1]

Scanner_peek(sc) ==
    IF Scanner_is_at_end(sc) THEN "" ELSE sc.source[sc.current + 1]

Scanner_peek_next(sc) ==
    IF sc.current + 1 >= Len(sc.source) THEN "" ELSE sc.source[sc.current + 2]

\* _match(c): whether it matched; Scanner_advance is applied when it did
Scanner_match(sc, c) ==
    IF Scanner_is_at_end(sc) THEN FALSE
    ELSE sc.source[sc.current + 1] = c

Scanner_do_add_token(sc, token_type, literal) ==
    [sc EXCEPT !.tokens = Append(@,
        Token(token_type, Slice(sc.source, sc.start, sc.current), literal,
              sc.line, sc.base + Len(sc.tokens) + 1))]

Scanner_add_token(sc, token_type) == Scanner_do_add_token(sc, token_type, None)

\* the one-or-two character operators: TWO if the next character is '='
Scanner_add_pair(sc, two, one) ==
    IF Scanner_match(sc, "=")
    THEN Scanner_add_token(Scanner_advance(sc), two)
    ELSE Scanner_add_token(sc, one)

RECURSIVE Scanner_line_comment(_)
Scanner_line_comment(sc) ==
    IF Scanner_peek(sc) # "\n" /\ ~Scanner_is_at_end(sc)
    THEN Scanner_line_comment(Scanner_advance(sc))
    ELSE sc

RECURSIVE Scanner_c_style_loop(_)
Scanner_c_style_loop(sc) ==
    IF ~Scanner_is_at_end(sc)
       /\ ~(Scanner_peek(sc) = "*" /\ Scanner_peek_next(sc) = "/")
    THEN Scanner_c_style_loop(Scanner_advance(
            IF Scanner_peek(sc) = "\n" THEN [sc EXCEPT !.line = @ + 1] ELSE sc))
    ELSE sc

Scanner_c_style_comment(sc) ==
    (CHOOSE result \in {IF Scanner_is_at_end(s1)
    THEN error_line(s1, s1.line, "Unterminated comment")
    ELSE Scanner_advance(Scanner_advance(s1))
    : s1 \in {Scanner_c_style_loop(sc)}} : TRUE)

RECURSIVE Scanner_string_loop(_)
Scanner_string_loop(sc) ==
    IF Scanner_peek(sc) # "\"" /\ ~Scanner_is_at_end(sc)
    THEN Scanner_string_loop(Scanner_advance(
            IF Scanner_peek(sc) = "\n" THEN [sc EXCEPT !.line = @ + 1] ELSE sc))
    ELSE sc

Scanner_string(sc) ==
    (CHOOSE result \in {IF Scanner_is_at_end(s1)
    THEN error_line(s1, s1.line, "Unterminated string.")
    ELSE (CHOOSE result \in {Scanner_do_add_token(s2, "STRING",
            PyStr(Slice(s2.source, s2.start + 1, s2.current - 1)))
         : s2 \in {Scanner_advance(s1)}} : TRUE)
    : s1 \in {Scanner_string_loop(sc)}} : TRUE)

RECURSIVE Scanner_digits(_)
Scanner_digits(sc) ==
    IF isdigit(Scanner_peek(sc)) THEN Scanner_digits(Scanner_advance(sc)) ELSE sc

Scanner_number(sc) ==
    (CHOOSE result \in {(CHOOSE result \in {IF FloatAccepts(s2.source, s2.start, s2.current)
       THEN Scanner_do_add_token(s2, "NUMBER",
                ParseFloat(s2.source, s2.start, s2.current))
       ELSE [s2 EXCEPT !.exc = "ValueError"]
    : s2 \in {IF Scanner_peek(s1) = "." /\ isdigit(Scanner_peek_next(s1))
                  THEN Scanner_digits(Scanner_advance(s1))
                  ELSE s1}} : TRUE)
    : s1 \in {Scanner_digits(sc)}} : TRUE)

RECURSIVE Scanner_alnums(_)
Scanner_alnums(sc) ==
    IF isalnum(Scanner_peek(sc)) THEN Scanner_alnums(Scanner_advance(sc)) ELSE sc

Scanner_identifier(sc) ==
    (CHOOSE result \in {(CHOOSE result \in {Scanner_add_token(s1, IF text \in KEYWORDS THEN Upper(text)
                             ELSE "IDENTIFIER")
    : text \in {Slice(s1.source, s1.start, s1.current)}} : TRUE)
    : s1 \in {Scanner_alnums(sc)}} : TRUE)

Scanner_scan_token(sc0) ==
    (CHOOSE result \in {(CHOOSE result \in {CASE c = "(" -> Scanner_add_token(sc, "LEFT_PAREN")
         [] c = ")" -> Scanner_add_token(sc, "RIGHT_PAREN")
         [] c = "{" -> Scanner_add_token(sc, "LEFT_BRACE")
         [] c = "}" -> Scanner_add_token(sc, "RIGHT_BRACE")
         [] c = "," -> Scanner_add_token(sc, "COMMA")
         [] c = "." -> Scanner_add_token(sc, "DOT")
         [] c = "-" -> Scanner_add_token(sc, "MINUS")
         [] c = "+" -> Scanner_add_token(sc, "PLUS")
         [] c = ";" -> Scanner_add_token(sc, "SEMICOLON")
         [] c = "*" -> Scanner_add_token(sc, "STAR")
         [] c = "!" -> Scanner_add_pair(sc, "BANG_EQUAL", "BANG")
         [] c = "=" -> Scanner_add_pair(sc, "EQUAL_EQUAL", "EQUAL")
         [] c = "<" -> Scanner_add_pair(sc, "LESS_EQUAL", "LESS")
         [] c = ">" -> Scanner_add_pair(sc, "GREATER_EQUAL", "GREATER")
         [] c = "/" ->
                IF Scanner_match(sc, "/")
                THEN Scanner_line_comment(Scanner_advance(sc))
                ELSE IF Scanner_match(sc, "*")
                THEN Scanner_c_style_comment(Scanner_advance(sc))
                ELSE Scanner_add_token(sc, "SLASH")
         [] c \in {" ", "\r", "\t"} -> sc
         [] c = "\n" -> [sc EXCEPT !.line = @ + 1]
         [] c = "\"" -> Scanner_string(sc)
         [] OTHER ->
                IF isdigit(c) THEN Scanner_number(sc)
                ELSE IF isalpha(c) THEN Scanner_identifier(sc)
                ELSE error_line(sc, sc.line, "Unexpected character")
    : sc \in {Scanner_advance(sc0)}} : TRUE)
    : c \in {Scanner_peek(sc0)}} : TRUE)

\* the loop of scan_tokens, cut after n passes.  A pass consumes at least
\* one character, so the loop is over within as many passes as the source
\* has characters; the first half of the passes runs before the second.  An
\* exception ends the loop.
RECURSIVE Scanner_scan_passes(_, _)
Scanner_scan_passes(sc, n) ==
    IF Scanner_is_at_end(sc) \/ sc.exc # "" THEN sc
    ELSE IF n = 1 THEN Scanner_scan_token([sc EXCEPT !.start = sc.current])
    ELSE Scanner_scan_passes(Scanner_scan_passes(sc, n \div 2), n - n \div 2)

\* while not self._is_at_end(): self.start = self.current; _scan_token()
Scanner_scan_loop(sc) == Scanner_scan_passes(sc, Len(sc.source))

\* scan_tokens(): the scanner after the call; its tokens field is the result
Scanner_scan_tokens(sc) ==
    (CHOOSE result \in {IF s1.exc # "" THEN s1
    ELSE [s1 EXCEPT !.tokens = Append(@,
            Token("EOF", "", None, s1.line, s1.base + Len(s1.tokens) + 1))]
    : s1 \in {Scanner_scan_loop(sc)}} : TRUE)

-----------------------------------------------------------------------------
(* expr.py and stmt.py: the AST.  The classes are frozen dataclasses, so a  *)
(* node is equal to another exactly when the fields are equal, and a node's *)
(* hash is the hash of its fields: records model both.                      *)

Binary(left, operator, right) ==
    [e |-> "Binary", left |-> left, operator |-> operator, right |-> right]
Grouping(expression) == [e |-> "Grouping", expression |-> expression]
Literal(value) == [e |-> "Literal", value |-> value]
Unary(operator, right) == [e |-> "Unary", operator |-> operator, right |-> right]
Variable(name) == [e |-> "Variable", name |-> name]
Assign(name, value) == [e |-> "Assign", name |-> name, value |-> value]
Call(callee, paren, arguments) ==
    [e |-> "Call", callee |-> callee, paren |-> paren, arguments |-> arguments]
Logical(left, operator, right) ==
    [e |-> "Logical", left |-> left, operator |-> operator, right |-> right]
Get(obj, name) == [e |-> "Get", obj |-> obj, name |-> name]
Set(obj, name, value) == [e |-> "Set", obj |-> obj, name |-> name, value |-> value]
This(keyword) == [e |-> "This", keyword |-> keyword]
Super(keyword, method) == [e |-> "Super", keyword |-> keyword, method |-> method]

Expression(expression) == [s |-> "Expression", expression |-> expression]
PrintStmt(expression) == [s |-> "Print", expression |-> expression]
Return(keyword, value) == [s |-> "Return", keyword |-> keyword, value |-> value]
Var(name, initializer) == [s |-> "Var", name |-> name, initializer |-> initializer]
Block(stmts) == [s |-> "Block", statements |-> stmts]
If(condition, then_branch, else_branch) ==
    [s |-> "If", condition |-> condition, then_branch |-> then_branch,
     else_branch |-> else_branch]
While(condition, body) == [s |-> "While", condition |-> condition, body |-> body]
Function(name, params, body) ==
    [s |-> "Function", name |-> name, params |-> params, body |-> body]
Class(name, superclass, methods) ==
    [s |-> "Class", name |-> name, superclass |-> superclass, methods |-> methods]

-----------------------------------------------------------------------------
(* parser.py.  A parsing method returns [k, p, v]: k is "ok" or            *)
(* "ParseError", p the parser afterwards, v the value returned.            *)

MaxParameters == 255
MaxArguments == 255

POk(p, v) == [k |-> "ok", p |-> p, v |-> v]
PRaise(p) == [k |-> "ParseError", p |-> p, v |-> None]

\* Parser(tokens); had_error and stdout are the diagnostic state.  calls,
\* fors and assigns are history: the calls of _declaration, the for
\* statements and the assignments parsed so far.
Parser(toks, d) ==
    [tokens |-> toks, current |-> 0, had_error |-> d.had_error,
     stdout |-> d.stdout, calls |-> <<>>, fors |-> <<>>, assigns |-> <<>>]

Parser_peek(p) == p.tokens[p.current + 1]

\* tokens[current - 1]: index -1 is the last element of a Python list
Parser_previous(p) ==
    IF p.current = 0 THEN p.tokens[Len(p.tokens)] ELSE p.tokens[p.current]

Parser_is_at_end(p) == Parser_peek(p).token_type = "EOF"

Parser_check(p, token_type) ==
    IF Parser_is_at_end(p) THEN FALSE
    ELSE Parser_peek(p).token_type = token_type

\* _advance: the parser afterwards; it returns Parser_previous of that
Parser_advance(p) ==
    IF ~Parser_is_at_end(p) THEN [p EXCEPT !.current = @ + 1] ELSE p

\* _match(*token_types): whether one matched; Parser_advance is applied
\* when it did
Parser_match(p, token_types) == \E tt \in token_types : Parser_check(p, tt)

\* _error: reports, and returns the ParseError for the caller to raise
Parser_error(p, token, msg) == error_token(p, token, msg)

Parser_consume(p, token_type, msg) ==
    IF Parser_check(p, token_type)
    THEN POk(Parser_advance(p), Parser_previous(Parser_advance(p)))
    ELSE PRaise(Parser_error(p, Parser_peek(p), msg))

SyncTypes == {"CLASS", "FUN", "VAR", "FOR", "IF", "WHILE", "PRINT", "RETURN"}

\* a variant of the loop of _synchronize for the sensitivity of C20: without
\* the test of the previous token
RECURSIVE Parser_synchronize_loop_keywords(_)
Parser_synchronize_loop_keywords(p) ==
    IF Parser_is_at_end(p) THEN p
    ELSE IF Parser_peek(p).token_type \in SyncTypes THEN p
    ELSE Parser_synchronize_loop_keywords(Parser_advance(p))

\* the while loop of _synchronize
RECURSIVE Parser_synchronize_loop(_)
Parser_synchronize_loop(p) ==
    IF Parser_is_at_end(p) THEN p
    ELSE IF Parser_previous(p).token_type = "SEMICOLON" THEN p
    ELSE IF Parser_peek(p).token_type \in SyncTypes THEN p
    ELSE Parser_synchronize_loop(Parser_advance(p))

Parser_synchronize(p) == Parser_synchronize_loop(Parser_advance(p))

RECURSIVE Parser_declaration(_), Parser_class_declaration(_),
          Parser_methods(_, _), Parser_function(_, _),
          Parser_parameters(_, _), Parser_var_declaration(_),
          Parser_statement(_), Parser_print_statement(_),
          Parser_return_statement(_), Parser_expression_statement(_),
          Parser_if_statement(_), Parser_while_statement(_),
          Parser_for_statement(_), Parser_block(_), Parser_block_loop(_, _),
          Parser_condition(_, _, _),
          Parser_expression(_), Parser_assignment(_), Parser_or(_),
          Parser_or_loop(_, _), Parser_and(_), Parser_and_loop(_, _),
          Parser_equality(_), Parser_equality_loop(_, _),
          Parser_comparison(_), Parser_comparison_loop(_, _),
          Parser_term(_), Parser_term_loop(_, _), Parser_factor(_),
          Parser_factor_loop(_, _), Parser_unary(_), Parser_call(_),
          Parser_call_loop(_, _), Parser_finish_call(_, _),
          Parser_arguments(_, _), Parser_primary(_)

\* history: a call of _declaration made at cursor p.current has returned
\* with the parser q; r is how the try block ended, at cursor r.p.current
DeclarationEvent(q, p, r) ==
    [q EXCEPT !.calls = Append(@, [from |-> p.current, at |-> r.p.current,
                                   to |-> q.current, k |-> r.k])]

\* a variant of _declaration for the sensitivity of C12: no except clause
Parser_declaration_uncaught(p) ==
    (CHOOSE result \in {[r EXCEPT !.p = DeclarationEvent(r.p, p, r)]
    : r \in {CASE Parser_match(p, {"FUN"}) ->
                    Parser_function(Parser_advance(p), "function")
               [] Parser_match(p, {"VAR"}) ->
                    Parser_var_declaration(Parser_advance(p))
               [] Parser_match(p, {"CLASS"}) ->
                    Parser_class_declaration(Parser_advance(p))
               [] OTHER -> Parser_statement(p)}} : TRUE)

Parser_declaration(p) ==
    (CHOOSE result \in {IF r.k = "ParseError"
       THEN POk(DeclarationEvent(Parser_synchronize(r.p), p, r), None)
       ELSE [r EXCEPT !.p = DeclarationEvent(r.p, p, r)]
    : r \in {CASE Parser_match(p, {"FUN"}) ->
                    Parser_function(Parser_advance(p), "function")
               [] Parser_match(p, {"VAR"}) ->
                    Parser_var_declaration(Parser_advance(p))
               [] Parser_match(p, {"CLASS"}) ->
                    Parser_class_declaration(Parser_advance(p))
               [] OTHER -> Parser_statement(p)}} : TRUE)

\* the loop of _class_declaration that collects the methods
Parser_methods(p, methods) ==
    IF ~Parser_check(p, "RIGHT_BRACE") /\ ~Parser_is_at_end(p)
    THEN (CHOOSE result \in {IF r.k # "ok" THEN r ELSE Parser_methods(r.p, Append(methods, r.v))
         : r \in {Parser_function(p, "method")}} : TRUE)
    ELSE POk(p, methods)

\* _class_declaration up to the "{" of the body: the name and the superclass
Parser_class_header(p) ==
    (CHOOSE result \in {IF r1.k # "ok" THEN r1 ELSE
    (CHOOSE result \in {IF r2.k # "ok" THEN r2 ELSE
    (CHOOSE result \in {IF r3.k # "ok" THEN r3
    ELSE POk(r3.p, [name |-> r1.v, superclass |-> r2.v])
    : r3 \in {Parser_consume(r2.p, "LEFT_BRACE",
                             "Expect \"{\" before class body.")}} : TRUE)
    : r2 \in {IF Parser_match(r1.p, {"LESS"})
              THEN (CHOOSE result \in {IF c.k # "ok" THEN c
                      ELSE POk(c.p, Variable(Parser_previous(c.p)))
                   : c \in {Parser_consume(Parser_advance(r1.p), "IDENTIFIER",
                                           "Expect superclass name.")}} : TRUE)
              ELSE POk(r1.p, None)}} : TRUE)
    : r1 \in {Parser_consume(p, "IDENTIFIER", "Expect class name.")}} : TRUE)

Parser_class_declaration(p) ==
    (CHOOSE result \in {IF r3.k # "ok" THEN r3 ELSE
    (CHOOSE result \in {IF r4.k # "ok" THEN r4 ELSE
    (CHOOSE result \in {IF r5.k # "ok" THEN r5
    ELSE POk(r5.p, Class(r3.v.name, r3.v.superclass, r4.v))
    : r5 \in {Parser_consume(r4.p, "RIGHT_BRACE",
                             "Expect \"}\" after class body.")}} : TRUE)
    : r4 \in {Parser_methods(r3.p, <<>>)}} : TRUE)
    : r3 \in {Parser_class_header(p)}} : TRUE)

\* the while True loop of _function that collects the parameters
Parser_parameters(p, parameters) ==
    (CHOOSE result \in {(CHOOSE result \in {IF r.k # "ok" THEN r
       ELSE IF Parser_match(r.p, {"COMMA"})
       THEN Parser_parameters(Parser_advance(r.p), Append(parameters, r.v))
       ELSE POk(r.p, Append(parameters, r.v))
    : r \in {Parser_consume(p1, "IDENTIFIER", "Expect parameter name.")}} : TRUE)
    : p1 \in {IF Len(parameters) >= MaxParameters
              THEN Parser_error(p, Parser_peek(p),
                                "Can't have more than 255 parameters.")
              ELSE p}} : TRUE)

\* _function up to the "{" of the body: the name and the parameters
Parser_function_header(p, kind) ==
    (CHOOSE result \in {IF r1.k # "ok" THEN r1 ELSE
    (CHOOSE result \in {IF r2.k # "ok" THEN r2 ELSE
    (CHOOSE result \in {IF r3.k # "ok" THEN r3 ELSE
    (CHOOSE result \in {IF r4.k # "ok" THEN r4 ELSE
    (CHOOSE result \in {IF r5.k # "ok" THEN r5
    ELSE POk(r5.p, [name |-> r1.v, parameters |-> r3.v])
    : r5 \in {Parser_consume(r4.p, "LEFT_BRACE",
                             "Expect \"{\" before " \o kind \o " body.")}} : TRUE)
    : r4 \in {Parser_consume(r3.p, "RIGHT_PAREN",
                             "Expect \")\" after parameters.")}} : TRUE)
    : r3 \in {IF ~Parser_check(r2.p, "RIGHT_PAREN")
              THEN Parser_parameters(r2.p, <<>>)
              ELSE POk(r2.p, <<>>)}} : TRUE)
    : r2 \in {Parser_consume(r1.p, "LEFT_PAREN",
                             "Expect \"(\" after " \o kind \o " name.\"")}} : TRUE)
    : r1 \in {Parser_consume(p, "IDENTIFIER", "Expect " \o kind \o " name.")}} : TRUE)

Parser_function(p, kind) ==
    (CHOOSE result \in {IF r5.k # "ok" THEN r5 ELSE
    (CHOOSE result \in {IF r6.k # "ok" THEN r6
    ELSE POk(r6.p, Function(r5.v.name, r5.v.parameters, r6.v))
    : r6 \in {Parser_block(r5.p)}} : TRUE)
    : r5 \in {Parser_function_header(p, kind)}} : TRUE)

Parser_var_declaration(p) ==
    (CHOOSE result \in {IF r1.k # "ok" THEN r1 ELSE
    (CHOOSE result \in {IF r2.k # "ok" THEN r2 ELSE
    (CHOOSE result \in {IF r3.k # "ok" THEN r3 ELSE POk(r3.p, Var(r1.v, r2.v))
    : r3 \in {Parser_consume(r2.p, "SEMICOLON",
                             "Expect \";\" after variable declaration.")}} : TRUE)
    : r2 \in {IF Parser_match(r1.p, {"EQUAL"})
              THEN Parser_expression(Parser_advance(r1.p))
              ELSE POk(r1.p, None)}} : TRUE)
    : r1 \in {Parser_consume(p, "IDENTIFIER", "Expect variable name.")}} : TRUE)

Parser_statement(p) ==
    CASE Parser_match(p, {"PRINT"}) -> Parser_print_statement(Parser_advance(p))
      [] Parser_match(p, {"RETURN"}) ->
            Parser_return_statement(Parser_advance(p))
      [] Parser_match(p, {"LEFT_BRACE"}) ->
            ((CHOOSE result \in {IF r.k # "ok" THEN r ELSE POk(r.p, Block(r.v))
             : r \in {Parser_block(Parser_advance(p))}} : TRUE))
      [] Parser_match(p, {"IF"}) -> Parser_if_statement(Parser_advance(p))
      [] Parser_match(p, {"WHILE"}) -> Parser_while_statement(Parser_advance(p))
      [] Parser_match(p, {"FOR"}) -> Parser_for_statement(Parser_advance(p))
      [] OTHER -> Parser_expression_statement(p)

Parser_print_statement(p) ==
    (CHOOSE result \in {IF r1.k # "ok" THEN r1 ELSE
    (CHOOSE result \in {IF r2.k # "ok" THEN r2 ELSE POk(r2.p, PrintStmt(r1.v))
    : r2 \in {Parser_consume(r1.p, "SEMICOLON", "Expect \";\" after value.")}} : TRUE)
    : r1 \in {Parser_expression(p)}} : TRUE)

Parser_return_statement(p) ==
    (CHOOSE result \in {(CHOOSE result \in {IF r1.k # "ok" THEN r1 ELSE
    (CHOOSE result \in {IF r2.k # "ok" THEN r2 ELSE POk(r2.p, Return(keyword, r1.v))
    : r2 \in {Parser_consume(r1.p, "SEMICOLON",
                             "Expect \";\" after return value.")}} : TRUE)
    : r1 \in {IF ~Parser_check(p, "SEMICOLON") THEN Parser_expression(p)
                  ELSE POk(p, None)}} : TRUE)
    : keyword \in {Parser_previous(p)}} : TRUE)

Parser_expression_statement(p) ==
    (CHOOSE result \in {IF r1.k # "ok" THEN r1 ELSE
    (CHOOSE result \in {IF r2.k # "ok" THEN r2 ELSE POk(r2.p, Expression(r1.v))
    : r2 \in {Parser_consume(r1.p, "SEMICOLON",
                             "Expect \";\" after expression.")}} : TRUE)
    : r1 \in {Parser_expression(p)}} : TRUE)

\* the "(" condition ")" that _if_statement and _while_statement start with
Parser_condition(p, msg_open, msg_close) ==
    (CHOOSE result \in {IF r1.k # "ok" THEN r1 ELSE
    (CHOOSE result \in {IF r2.k # "ok" THEN r2 ELSE
    (CHOOSE result \in {IF r3.k # "ok" THEN r3 ELSE POk(r3.p, r2.v)
    : r3 \in {Parser_consume(r2.p, "RIGHT_PAREN", msg_close)}} : TRUE)
    : r2 \in {Parser_expression(r1.p)}} : TRUE)
    : r1 \in {Parser_consume(p, "LEFT_PAREN", msg_open)}} : TRUE)

Parser_if_statement(p) ==
    (CHOOSE result \in {IF r3.k # "ok" THEN r3 ELSE
    (CHOOSE result \in {IF r4.k # "ok" THEN r4 ELSE
    (CHOOSE result \in {IF r5.k # "ok" THEN r5 ELSE POk(r5.p, If(r3.v, r4.v, r5.v))
    : r5 \in {IF Parser_match(r4.p, {"ELSE"})
              THEN Parser_statement(Parser_advance(r4.p))
              ELSE POk(r4.p, None)}} : TRUE)
    : r4 \in {Parser_statement(r3.p)}} : TRUE)
    : r3 \in {Parser_condition(p, "Expect \"(\" after if.",
                               "Expect \")\" after if condition.")}} : TRUE)

Parser_while_statement(p) ==
    (CHOOSE result \in {IF r3.k # "ok" THEN r3 ELSE
    (CHOOSE result \in {IF r4.k # "ok" THEN r4 ELSE POk(r4.p, While(r3.v, r4.v))
    : r4 \in {Parser_statement(r3.p)}} : TRUE)
    : r3 \in {Parser_condition(p, "Expect \"(\" after while.",
                               "Expect \")\" after while condition.")}} : TRUE)

\* a variant of the end of _for_statement for the sensitivity of C18: the
\* increment before the body
Parser_for_increment_first(initializer, condition, increment, body) ==
    (CHOOSE result \in {(CHOOSE result \in {(CHOOSE result \in {(CHOOSE result \in {[k |-> "ok", p |-> None, v |-> body3]
    : body3 \in {IF initializer # None THEN Block(<<initializer, body2>>)
                     ELSE body2}} : TRUE)
    : body2 \in {While(cond, body1)}} : TRUE)
    : cond \in {IF condition = None THEN Literal(PyBool(TRUE)) ELSE condition}} : TRUE)
    : body1 \in {IF increment # None
                 THEN Block(<<Expression(increment), body>>)
                 ELSE body}} : TRUE)

\* the end of _for_statement: the statement made of the clauses and the
\* body (the parser is filled in by the caller)
Parser_for_desugar(initializer, condition, increment, body) ==
    (CHOOSE result \in {(CHOOSE result \in {(CHOOSE result \in {(CHOOSE result \in {[k |-> "ok", p |-> None, v |-> body3]
    : body3 \in {IF initializer # None THEN Block(<<initializer, body2>>)
                     ELSE body2}} : TRUE)
    : body2 \in {While(cond, body1)}} : TRUE)
    : cond \in {IF condition = None THEN Literal(PyBool(TRUE)) ELSE condition}} : TRUE)
    : body1 \in {IF increment # None
                 THEN Block(<<body, Expression(increment)>>)
                 ELSE body}} : TRUE)

Parser_for_statement(p) ==
    (CHOOSE result \in {IF r1.k # "ok" THEN r1 ELSE
    (CHOOSE result \in {IF r2.k # "ok" THEN r2 ELSE
    (CHOOSE result \in {IF r3.k # "ok" THEN r3 ELSE
    (CHOOSE result \in {IF r4.k # "ok" THEN r4 ELSE
    (CHOOSE result \in {IF r5.k # "ok" THEN r5 ELSE
    (CHOOSE result \in {IF r6.k # "ok" THEN r6 ELSE
    (CHOOSE result \in {IF r7.k # "ok" THEN r7 ELSE
    [Parser_for_desugar(r2.v, r3.v, r5.v, r7.v) EXCEPT
        !.p = [r7.p EXCEPT !.fors = Append(@,
                [initializer |-> r2.v, condition |-> r3.v, increment |-> r5.v,
                 body |-> r7.v,
                 result |-> Parser_for_desugar(r2.v, r3.v, r5.v, r7.v).v])]]
    : r7 \in {Parser_statement(r6.p)}} : TRUE)
    : r6 \in {Parser_consume(r5.p, "RIGHT_PAREN",
                             "Expect \")\" after for clauses.")}} : TRUE)
    : r5 \in {IF ~Parser_check(r4.p, "RIGHT_PAREN") THEN Parser_expression(r4.p)
              ELSE POk(r4.p, None)}} : TRUE)
    : r4 \in {Parser_consume(r3.p, "SEMICOLON",
                             "Expect \";\" after loop condition.")}} : TRUE)
    : r3 \in {IF ~Parser_check(r2.p, "SEMICOLON") THEN Parser_expression(r2.p)
              ELSE POk(r2.p, None)}} : TRUE)
    : r2 \in {IF Parser_match(r1.p, {"SEMICOLON"})
              THEN POk(Parser_advance(r1.p), None)
              ELSE IF Parser_match(r1.p, {"VAR"})
              THEN Parser_var_declaration(Parser_advance(r1.p))
              ELSE Parser_expression_statement(r1.p)}} : TRUE)
    : r1 \in {Parser_consume(p, "LEFT_PAREN", "Expect \"(\" after for.")}} : TRUE)

\* the while loop of _block
Parser_block_loop(p, stmts) ==
    IF ~Parser_check(p, "RIGHT_BRACE") /\ ~Parser_is_at_end(p)
    THEN (CHOOSE result \in {IF r.k # "ok" THEN r ELSE Parser_block_loop(r.p, Append(stmts, r.v))
         : r \in {Parser_declaration(p)}} : TRUE)
    ELSE POk(p, stmts)

Parser_block(p) ==
    (CHOOSE result \in {IF r1.k # "ok" THEN r1 ELSE
    (CHOOSE result \in {IF r2.k # "ok" THEN r2 ELSE POk(r2.p, r1.v)
    : r2 \in {Parser_consume(r1.p, "RIGHT_BRACE", "Expect \"}\" after block.")}} : TRUE)
    : r1 \in {Parser_block_loop(p, <<>>)}} : TRUE)

Parser_expression(p) == Parser_assignment(p)

\* history: the assignment of r2.v to the expression expr has been parsed
\* with the outcome out
AssignEvent(expr, r2, out) ==
    [out EXCEPT !.p.assigns = Append(@,
        [target |-> expr, value |-> r2.v, value_end |-> r2.p.current,
         k |-> out.k, result |-> out.v, current |-> out.p.current,
         reported |-> Len(out.p.stdout) - Len(r2.p.stdout),
         had_error |-> out.p.had_error])]

\* a variant of the end of _assignment for the sensitivity of C19: the
\* ParseError that _error returns is raised
Parser_assign_raising(expr, equals, r2) ==
    IF expr.e = "Variable" THEN POk(r2.p, Assign(expr.name, r2.v))
    ELSE IF expr.e = "Get" THEN POk(r2.p, Set(expr.obj, expr.name, r2.v))
    ELSE [PRaise(Parser_error(r2.p, equals, "Invalid assignment target."))
            EXCEPT !.v = expr]

\* the end of _assignment, after the value r2 was parsed: expr is the
\* expression before the "=" token equals
Parser_assign(expr, equals, r2) ==
    IF expr.e = "Variable" THEN POk(r2.p, Assign(expr.name, r2.v))
    ELSE IF expr.e = "Get" THEN POk(r2.p, Set(expr.obj, expr.name, r2.v))
    ELSE POk(Parser_error(r2.p, equals, "Invalid assignment target."), expr)

Parser_assignment(p) ==
    (CHOOSE result \in {IF r1.k # "ok" THEN r1 ELSE
    IF Parser_match(r1.p, {"EQUAL"})
    THEN (CHOOSE result \in {IF r2.k # "ok" THEN r2
         ELSE AssignEvent(r1.v, r2,
                Parser_assign(r1.v, Parser_previous(Parser_advance(r1.p)), r2))
         : r2 \in {Parser_assignment(Parser_advance(r1.p))}} : TRUE)
    ELSE r1
    : r1 \in {Parser_or(p)}} : TRUE)

Parser_or_loop(p, expr) ==
    IF Parser_match(p, {"OR"})
    THEN (CHOOSE result \in {(CHOOSE result \in {IF r.k # "ok" THEN r
            ELSE Parser_or_loop(r.p, Logical(expr, Parser_previous(p1), r.v))
         : r \in {Parser_and(p1)}} : TRUE)
         : p1 \in {Parser_advance(p)}} : TRUE)
    ELSE POk(p, expr)

Parser_or(p) ==
    (CHOOSE result \in {IF r.k # "ok" THEN r ELSE Parser_or_loop(r.p, r.v)
    : r \in {Parser_and(p)}} : TRUE)

Parser_and_loop(p, expr) ==
    IF Parser_match(p, {"AND"})
    THEN (CHOOSE result \in {(CHOOSE result \in {IF r.k # "ok" THEN r
            ELSE Parser_and_loop(r.p, Logical(expr, Parser_previous(p1), r.v))
         : r \in {Parser_equality(p1)}} : TRUE)
         : p1 \in {Parser_advance(p)}} : TRUE)
    ELSE POk(p, expr)

Parser_and(p) ==
    (CHOOSE result \in {IF r.k # "ok" THEN r ELSE Parser_and_loop(r.p, r.v)
    : r \in {Parser_equality(p)}} : TRUE)

Parser_equality_loop(p, expr) ==
    IF Parser_match(p, {"BANG_EQUAL", "EQUAL_EQUAL"})
    THEN (CHOOSE result \in {(CHOOSE result \in {IF r.k # "ok" THEN r
            ELSE Parser_equality_loop(r.p,
                    Binary(expr, Parser_previous(p1), r.v))
         : r \in {Parser_comparison(p1)}} : TRUE)
         : p1 \in {Parser_advance(p)}} : TRUE)
    ELSE POk(p, expr)

Parser_equality(p) ==
    (CHOOSE result \in {IF r.k # "ok" THEN r ELSE Parser_equality_loop(r.p, r.v)
    : r \in {Parser_comparison(p)}} : TRUE)

Parser_comparison_loop(p, expr) ==
    IF Parser_match(p, {"GREATER", "GREATER_EQUAL", "LESS", "LESS_EQUAL"})
    THEN (CHOOSE result \in {(CHOOSE result \in {IF r.k # "ok" THEN r
            ELSE Parser_comparison_loop(r.p,
                    Binary(expr, Parser_previous(p1), r.v))
         : r \in {Parser_term(p1)}} : TRUE)
         : p1 \in {Parser_advance(p)}} : TRUE)
    ELSE POk(p, expr)

Parser_comparison(p) ==
    (CHOOSE result \in {IF r.k # "ok" THEN r ELSE Parser_comparison_loop(r.p, r.v)
    : r \in {Parser_term(p)}} : TRUE)

Parser_term_loop(p, expr) ==
    IF Parser_match(p, {"MINUS", "PLUS"})
    THEN (CHOOSE result \in {(CHOOSE result \in {IF r.k # "ok" THEN r
            ELSE Parser_term_loop(r.p, Binary(expr, Parser_previous(p1), r.v))
         : r \in {Parser_factor(p1)}} : TRUE)
         : p1 \in {Parser_advance(p)}} : TRUE)
    ELSE POk(p, expr)

Parser_term(p) ==
    (CHOOSE result \in {IF r.k # "ok" THEN r ELSE Parser_term_loop(r.p, r.v)
    : r \in {Parser_factor(p)}} : TRUE)

Parser_factor_loop(p, expr) ==
    IF Parser_match(p, {"SLASH", "STAR"})
    THEN (CHOOSE result \in {(CHOOSE result \in {IF r.k # "ok" THEN r
            ELSE Parser_factor_loop(r.p, Binary(expr, Parser_previous(p1), r.v))
         : r \in {Parser_unary(p1)}} : TRUE)
         : p1 \in {Parser_advance(p)}} : TRUE)
    ELSE POk(p, expr)

Parser_factor(p) ==
    (CHOOSE result \in {IF r.k # "ok" THEN r ELSE Parser_factor_loop(r.p, r.v)
    : r \in {Parser_unary(p)}} : TRUE)

Parser_unary(p) ==
    IF Parser_match(p, {"BANG", "MINUS"})
    THEN (CHOOSE result \in {(CHOOSE result \in {IF r.k # "ok" THEN r ELSE POk(r.p, Unary(Parser_previous(p1), r.v))
         : r \in {Parser_unary(p1)}} : TRUE)
         : p1 \in {Parser_advance(p)}} : TRUE)
    ELSE Parser_call(p)

\* the while True loop of _call
Parser_call_loop(p, expr) ==
    IF Parser_match(p, {"LEFT_PAREN"})
    THEN (CHOOSE result \in {IF r.k # "ok" THEN r ELSE Parser_call_loop(r.p, r.v)
         : r \in {Parser_finish_call(Parser_advance(p), expr)}} : TRUE)
    ELSE IF Parser_match(p, {"DOT"})
    THEN (CHOOSE result \in {IF r.k # "ok" THEN r ELSE Parser_call_loop(r.p, Get(expr, r.v))
         : r \in {Parser_consume(Parser_advance(p), "IDENTIFIER",
                                 "Expect property name after \".\".")}} : TRUE)
    ELSE POk(p, expr)

Parser_call(p) ==
    (CHOOSE result \in {IF r.k # "ok" THEN r ELSE Parser_call_loop(r.p, r.v)
    : r \in {Parser_primary(p)}} : TRUE)

\* the while True loop of _finish_call that collects the arguments
Parser_arguments(p, arguments) ==
    (CHOOSE result \in {(CHOOSE result \in {IF r.k # "ok" THEN r
       ELSE IF Parser_match(r.p, {"COMMA"})
       THEN Parser_arguments(Parser_advance(r.p), Append(arguments, r.v))
       ELSE POk(r.p, Append(arguments, r.v))
    : r \in {Parser_expression(p1)}} : TRUE)
    : p1 \in {IF Len(arguments) >= MaxArguments
              THEN Parser_error(p, Parser_peek(p),
                                "Can't have more than 255 arguments.")
              ELSE p}} : TRUE)

Parser_finish_call(p, callee) ==
    (CHOOSE result \in {IF r1.k # "ok" THEN r1 ELSE
    (CHOOSE result \in {IF r2.k # "ok" THEN r2 ELSE POk(r2.p, Call(callee, r2.v, r1.v))
    : r2 \in {Parser_consume(r1.p, "RIGHT_PAREN",
                             "Expect \")\" after arguments.")}} : TRUE)
    : r1 \in {IF ~Parser_check(p, "RIGHT_PAREN") THEN Parser_arguments(p, <<>>)
              ELSE POk(p, <<>>)}} : TRUE)

Parser_primary(p) ==
    CASE Parser_match(p, {"FALSE"}) ->
            POk(Parser_advance(p), Literal(PyBool(FALSE)))
      [] Parser_match(p, {"TRUE"}) ->
            POk(Parser_advance(p), Literal(PyBool(TRUE)))
      [] Parser_match(p, {"NIL"}) -> POk(Parser_advance(p), Literal(None))
      [] Parser_match(p, {"NUMBER", "STRING"}) ->
            POk(Parser_advance(p),
                Literal(Parser_previous(Parser_advance(p)).literal))
      [] Parser_match(p, {"SUPER"}) ->
            ((CHOOSE result \in {IF r1.k # "ok" THEN r1 ELSE
             (CHOOSE result \in {IF r2.k # "ok" THEN r2
             ELSE POk(r2.p, Super(Parser_previous(Parser_advance(p)), r2.v))
             : r2 \in {Parser_consume(r1.p, "IDENTIFIER",
                                      "Expect superclass method name.")}} : TRUE)
             : r1 \in {Parser_consume(Parser_advance(p), "DOT",
                                      "Expect \".\" after \"super\".")}} : TRUE))
      [] Parser_match(p, {"THIS"}) ->
            POk(Parser_advance(p), This(Parser_previous(Parser_advance(p))))
      [] Parser_match(p, {"IDENTIFIER"}) ->
            POk(Parser_advance(p), Variable(Parser_previous(Parser_advance(p))))
      [] Parser_match(p, {"LEFT_PAREN"}) ->
            ((CHOOSE result \in {IF r1.k # "ok" THEN r1 ELSE
             (CHOOSE result \in {IF r2.k # "ok" THEN r2 ELSE POk(r2.p, Grouping(r1.v))
             : r2 \in {Parser_consume(r1.p, "RIGHT_PAREN",
                                      "Expect \")\" after expression.")}} : TRUE)
             : r1 \in {Parser_expression(Parser_advance(p))}} : TRUE))
      [] OTHER -> PRaise(Parser_error(p, Parser_peek(p), "Expect expression."))

\* the while loop of parse
RECURSIVE Parser_parse_loop(_, _)

\* a variant of the loop of parse for the sensitivity of C13: a declaration
\* that ended in a parse error adds nothing to the list
Parser_parse_loop_skipping(p, stmts) ==
    IF ~Parser_is_at_end(p)
    THEN (CHOOSE result \in {IF r.k # "ok" THEN r
         ELSE Parser_parse_loop(r.p, IF r.v = None THEN stmts
                                     ELSE Append(stmts, r.v))
         : r \in {Parser_declaration(p)}} : TRUE)
    ELSE POk(p, stmts)

Parser_parse_loop(p, stmts) ==
    IF ~Parser_is_at_end(p)
    THEN (CHOOSE result \in {IF r.k # "ok" THEN r
         ELSE Parser_parse_loop(r.p, Append(stmts, r.v))
         : r \in {Parser_declaration(p)}} : TRUE)
    ELSE POk(p, stmts)

\* parse(): [k, p, v] with v the list of statements
Parser_parse(p) == Parser_parse_loop(p, <<>>)

-----------------------------------------------------------------------------
(* resolver.py.  The resolver is the record r; r.locals is the side table  *)
(* interpreter.locals it writes through Interpreter.resolve.  r.exc is the  *)
(* class of a host exception raised inside the resolver ("" when none):     *)
(* once it is set, nothing more of the resolver runs, so every operator     *)
(* that changes r leaves r alone when r.exc is set.                         *)

\* hash(expr) raises TypeError: the dataclass hash is the hash of the tuple
\* of the fields, and Call.arguments is a list, which has no hash.
RECURSIVE Unhashable(_)
Unhashable(expr) ==
    CASE expr.e = "Call" -> TRUE
      [] expr.e \in {"Binary", "Logical"} ->
            Unhashable(expr.left) \/ Unhashable(expr.right)
      [] expr.e = "Grouping" -> Unhashable(expr.expression)
      [] expr.e = "Unary" -> Unhashable(expr.right)
      [] expr.e = "Assign" -> Unhashable(expr.value)
      [] expr.e = "Get" -> Unhashable(expr.obj)
      [] expr.e = "Set" -> Unhashable(expr.obj) \/ Unhashable(expr.value)
      [] OTHER -> FALSE

Resolver(interp_locals, d) ==
    [scopes |-> <<>>, current_function |-> "NONE", current_class |-> "NONE",
     locals |-> interp_locals, had_error |-> d.had_error, stdout |-> d.stdout,
     exc |-> "", declares |-> <<>>, keywords |-> <<>>]

\* r2 unless an exception is propagating
Unless(r, r2) == IF r.exc # "" THEN r ELSE r2

\* Interpreter.resolve(expr, depth): self.locals[expr] = depth
Interpreter_resolve(r, expr, depth) ==
    Unless(r, IF Unhashable(expr) THEN [r EXCEPT !.exc = "TypeError"]
              ELSE [r EXCEPT !.locals = Put(@, expr, depth)])

Resolver_error(r, token, msg) == Unless(r, error_token(r, token, msg))

Resolver_begin_scope(r) ==
    Unless(r, [r EXCEPT !.scopes = Append(@, EmptyMap)])

Resolver_end_scope(r) ==
    Unless(r, [r EXCEPT !.scopes = SubSeq(@, 1, Len(@) - 1)])

\* self.scopes[-1][name] = value
Resolver_set_innermost(r, name, value) ==
    Unless(r, [r EXCEPT !.scopes[Len(r.scopes)] = Put(@, name, value)])
\* the history of _declare: the name, the number of scopes and the names of
\* the innermost one when it was called, and what it reported; r2 is the
\* resolver as _declare leaves it
DeclareEvent(r, name, r2) ==
    Unless(r, [r2 EXCEPT !.declares = Append(@,
        [lexeme |-> name.lexeme, line |-> name.line,
         depth |-> Len(r.scopes),
         scope |-> IF r.scopes = <<>> THEN {}
                   ELSE DOMAIN r.scopes[Len(r.scopes)],
         reported |-> SubSeq(r2.stdout, Len(r.stdout) + 1, Len(r2.stdout))])])

\* a variant of _declare for the sensitivity of C17: without the test of
\* the innermost scope
Resolver_declare_unchecked(r, name) ==
    IF r.scopes = <<>> THEN DeclareEvent(r, name, r)
    ELSE DeclareEvent(r, name, Resolver_set_innermost(r, name.lexeme, FALSE))

Resolver_declare(r, name) ==
    IF r.scopes = <<>> THEN DeclareEvent(r, name, r)
    ELSE (CHOOSE result \in {DeclareEvent(r, name,
                         Resolver_set_innermost(r1, name.lexeme, FALSE))
         : r1 \in {IF name.lexeme \in DOMAIN r.scopes[Len(r.scopes)]
                   THEN Resolver_error(r, name,
                            "Already a variable with this name in this scope.")
                   ELSE r}} : TRUE)

Resolver_define(r, name) ==
    IF r.scopes = <<>> THEN r
    ELSE Resolver_set_innermost(r, name.lexeme, TRUE)

\* the loop of _resolve_local, from scope index i (0-based) down to 0
RECURSIVE Resolver_resolve_local_from(_, _, _, _)

\* a variant of the loop for the sensitivity of C2: the depth counted from
\* len(self.scopes) instead of len(self.scopes) - 1
Resolver_resolve_local_off_by_one(r, expr, name, i) ==
    IF i < 0 THEN r
    ELSE IF name.lexeme \in DOMAIN r.scopes[i + 1]
    THEN Interpreter_resolve(r, expr, Len(r.scopes) - i)
    ELSE Resolver_resolve_local_from(r, expr, name, i - 1)

Resolver_resolve_local_from(r, expr, name, i) ==
    IF i < 0 THEN r
    ELSE IF name.lexeme \in DOMAIN r.scopes[i + 1]
    THEN Interpreter_resolve(r, expr, Len(r.scopes) - 1 - i)
    ELSE Resolver_resolve_local_from(r, expr, name, i - 1)

Resolver_resolve_local(r, expr, name) ==
    Resolver_resolve_local_from(r, expr, name, Len(r.scopes) - 1)

RECURSIVE Resolver_resolve_list(_, _, _), Resolver_resolve_stmt(_, _),
          Resolver_resolve_expr(_, _), Resolver_resolve_function(_, _, _),
          Resolver_resolve_params(_, _, _), Resolver_resolve_methods(_, _, _),
          Resolver_visit_class_stmt(_, _)

\* resolve(statements): the for loop, from element i (1-based)
Resolver_resolve_list(r, stmts, i) ==
    IF i > Len(stmts) THEN r
    ELSE Resolver_resolve_list(Resolver_resolve_stmt(r, stmts[i]), stmts, i + 1)

\* the loop of _resolve_function over the parameters
Resolver_resolve_params(r, params, i) ==
    IF i > Len(params) THEN r
    ELSE Resolver_resolve_params(
            Resolver_define(Resolver_declare(r, params[i]), params[i]),
            params, i + 1)

Resolver_resolve_function(r, function, function_type) ==
    (CHOOSE result \in {(CHOOSE result \in {(CHOOSE result \in {(CHOOSE result \in {(CHOOSE result \in {(CHOOSE result \in {Unless(r5, [r5 EXCEPT !.current_function = enclosing_function])
    : r5 \in {Resolver_end_scope(r4)}} : TRUE)
    : r4 \in {Resolver_resolve_list(r3, function.body, 1)}} : TRUE)
    : r3 \in {Resolver_resolve_params(r2, function.params, 1)}} : TRUE)
    : r2 \in {Resolver_begin_scope(r1)}} : TRUE)
    : r1 \in {Unless(r, [r EXCEPT !.current_function = function_type])}} : TRUE)
    : enclosing_function \in {r.current_function}} : TRUE)

\* the loop of visit_class_stmt over the methods
Resolver_resolve_methods(r, methods, i) ==
    IF i > Len(methods) THEN r
    ELSE Resolver_resolve_methods(
            Resolver_resolve_function(r, methods[i],
                IF methods[i].name.lexeme = "init" THEN "INITIALIZER"
                ELSE "METHOD"),
            methods, i + 1)
\* the first lines of visit_this_expr: the test of the class context
Resolver_check_this(r, expr) ==
    IF r.current_class = "NONE"
    THEN Resolver_error(r, expr.keyword,
                        "Can't use \"this\" outside of a class.")
    ELSE r

\* the first lines of visit_super_expr: the tests of the class context
Resolver_check_super(r, expr) ==
    IF r.current_class = "NONE"
    THEN Resolver_error(r, expr.keyword,
                        "Can't use \"super\" outside of a class.")
    ELSE IF r.current_class # "SUBCLASS"
    THEN Resolver_error(r, expr.keyword,
                        "Can't use \"super\" in a class with no superclass.")
    ELSE r

\* the history of visit_this_expr and visit_super_expr: the keyword, the
\* contexts it was visited in and what was reported; r2 is the resolver
\* after the tests
KeywordEvent(r, expr, r2) ==
    Unless(r, [r2 EXCEPT !.keywords = Append(@,
        [id |-> expr.keyword.id, e |-> expr.e,
         current_class |-> r.current_class,
         current_function |-> r.current_function,
         reported |-> SubSeq(r2.stdout, Len(r.stdout) + 1, Len(r2.stdout))])])

\* a variant of visit_class_stmt for the sensitivity of C22: without its
\* last line, which restores current_class
Resolver_visit_class_stmt_unrestored(r, stmt) ==
    (CHOOSE result \in {(CHOOSE result \in {(CHOOSE result \in {(CHOOSE result \in {(CHOOSE result \in {(CHOOSE result \in {(CHOOSE result \in {(CHOOSE result \in {(CHOOSE result \in {(CHOOSE result \in {r9
    : r9 \in {IF stmt.superclass # None THEN Resolver_end_scope(r8) ELSE r8}} : TRUE)
    : r8 \in {Resolver_end_scope(r7)}} : TRUE)
    : r7 \in {Resolver_resolve_methods(r6, stmt.methods, 1)}} : TRUE)
    : r6 \in {Resolver_set_innermost(Resolver_begin_scope(r5), "this", TRUE)}} : TRUE)
    : r5 \in {IF stmt.superclass # None
                  THEN Resolver_set_innermost(Resolver_begin_scope(r4), "super", TRUE)
                  ELSE r4}} : TRUE)
    : r4 \in {IF stmt.superclass # None
                  THEN Resolver_resolve_expr(
                          Unless(r3, [r3 EXCEPT !.current_class = "SUBCLASS"]),
                          stmt.superclass)
                  ELSE r3}} : TRUE)
    : r3 \in {IF stmt.superclass # None
                     /\ stmt.name.lexeme = stmt.superclass.name.lexeme
                  THEN Resolver_error(r2, stmt.superclass.name,
                                      "A class can't inherit from itself.")
                  ELSE r2}} : TRUE)
    : r2 \in {Resolver_define(Resolver_declare(r1, stmt.name), stmt.name)}} : TRUE)
    : r1 \in {Unless(r, [r EXCEPT !.current_class = "CLASS"])}} : TRUE)
    : enclosing_class \in {r.current_class}} : TRUE)

Resolver_visit_class_stmt(r, stmt) ==
    (CHOOSE result \in {(CHOOSE result \in {(CHOOSE result \in {(CHOOSE result \in {(CHOOSE result \in {(CHOOSE result \in {(CHOOSE result \in {(CHOOSE result \in {(CHOOSE result \in {(CHOOSE result \in {Unless(r9, [r9 EXCEPT !.current_class = enclosing_class])
    : r9 \in {IF stmt.superclass # None THEN Resolver_end_scope(r8) ELSE r8}} : TRUE)
    : r8 \in {Resolver_end_scope(r7)}} : TRUE)
    : r7 \in {Resolver_resolve_methods(r6, stmt.methods, 1)}} : TRUE)
    : r6 \in {Resolver_set_innermost(Resolver_begin_scope(r5), "this", TRUE)}} : TRUE)
    : r5 \in {IF stmt.superclass # None
                  THEN Resolver_set_innermost(Resolver_begin_scope(r4), "super", TRUE)
                  ELSE r4}} : TRUE)
    : r4 \in {IF stmt.superclass # None
                  THEN Resolver_resolve_expr(
                          Unless(r3, [r3 EXCEPT !.current_class = "SUBCLASS"]),
                          stmt.superclass)
                  ELSE r3}} : TRUE)
    : r3 \in {IF stmt.superclass # None
                     /\ stmt.name.lexeme = stmt.superclass.name.lexeme
                  THEN Resolver_error(r2, stmt.superclass.name,
                                      "A class can't inherit from itself.")
                  ELSE r2}} : TRUE)
    : r2 \in {Resolver_define(Resolver_declare(r1, stmt.name), stmt.name)}} : TRUE)
    : r1 \in {Unless(r, [r EXCEPT !.current_class = "CLASS"])}} : TRUE)
    : enclosing_class \in {r.current_class}} : TRUE)

\* resolve(statement): statement.accept(self).  A None in a statement list
\* is dispatched to resolve's default, the loop over a list: TypeError.
Resolver_resolve_stmt(r, stmt) ==
    IF r.exc # "" THEN r
    ELSE IF stmt = None THEN [r EXCEPT !.exc = "TypeError"]
    ELSE CASE stmt.s = "Block" ->
                Resolver_end_scope(
                    Resolver_resolve_list(Resolver_begin_scope(r),
                                          stmt.statements, 1))
      [] stmt.s = "Var" ->
            (CHOOSE result \in {(CHOOSE result \in {Resolver_define(r2, stmt.name)
            : r2 \in {IF stmt.initializer # None
                          THEN Resolver_resolve_expr(r1, stmt.initializer)
                          ELSE r1}} : TRUE)
            : r1 \in {Resolver_declare(r, stmt.name)}} : TRUE)
      [] stmt.s = "Function" ->
            Resolver_resolve_function(
                Resolver_define(Resolver_declare(r, stmt.name), stmt.name),
                stmt, "FUNCTION")
      [] stmt.s = "Expression" -> Resolver_resolve_expr(r, stmt.expression)
      [] stmt.s = "If" ->
            (CHOOSE result \in {(CHOOSE result \in {IF stmt.else_branch # None
               THEN Resolver_resolve_stmt(r2, stmt.else_branch)
               ELSE r2
            : r2 \in {Resolver_resolve_stmt(r1, stmt.then_branch)}} : TRUE)
            : r1 \in {Resolver_resolve_expr(r, stmt.condition)}} : TRUE)
      [] stmt.s = "Print" -> Resolver_resolve_expr(r, stmt.expression)
      [] stmt.s = "Return" ->
            (CHOOSE result \in {IF stmt.value # None
               THEN Resolver_resolve_expr(
                        IF r1.current_function = "INITIALIZER"
                        THEN Resolver_error(r1, stmt.keyword,
                                "Can't return a value from an initializer.")
                        ELSE r1,
                        stmt.value)
               ELSE r1
            : r1 \in {IF r.current_function = "NONE"
                      THEN Resolver_error(r, stmt.keyword,
                                          "Can't return from top-level code.")
                      ELSE r}} : TRUE)
      [] stmt.s = "While" ->
            Resolver_resolve_stmt(Resolver_resolve_expr(r, stmt.condition),
                                  stmt.body)
      [] stmt.s = "Class" -> Resolver_visit_class_stmt(r, stmt)

\* the loop of visit_call_expr over the arguments
RECURSIVE Resolver_resolve_arguments(_, _, _)
Resolver_resolve_arguments(r, arguments, i) ==
    IF i > Len(arguments) THEN r
    ELSE Resolver_resolve_arguments(Resolver_resolve_expr(r, arguments[i]),
                                    arguments, i + 1)

\* resolve(expr): expr.accept(self)
Resolver_resolve_expr(r, expr) ==
    IF r.exc # "" THEN r
    ELSE CASE expr.e = "Variable" ->
            (CHOOSE result \in {Resolver_resolve_local(r1, expr, expr.name)
            : r1 \in {IF r.scopes # <<>>
                         /\ expr.name.lexeme \in DOMAIN r.scopes[Len(r.scopes)]
                         /\ r.scopes[Len(r.scopes)][expr.name.lexeme] = FALSE
                      THEN Resolver_error(r, expr.name,
                            "Can't read local variable in its own initializer.")
                      ELSE r}} : TRUE)
      [] expr.e = "Assign" ->
            Resolver_resolve_local(Resolver_resolve_expr(r, expr.value),
                                   expr, expr.name)
      [] expr.e \in {"Binary", "Logical"} ->
            Resolver_resolve_expr(Resolver_resolve_expr(r, expr.left),
                                  expr.right)
      [] expr.e = "Call" ->
            Resolver_resolve_arguments(Resolver_resolve_expr(r, expr.callee),
                                       expr.arguments, 1)
      [] expr.e = "Grouping" -> Resolver_resolve_expr(r, expr.expression)
      [] expr.e = "Literal" -> r
      [] expr.e = "Unary" -> Resolver_resolve_expr(r, expr.right)
      [] expr.e = "Get" -> Resolver_resolve_expr(r, expr.obj)
      [] expr.e = "Set" ->
            Resolver_resolve_expr(Resolver_resolve_expr(r, expr.value),
                                  expr.obj)
      [] expr.e = "This" ->
            Resolver_resolve_local(
                KeywordEvent(r, expr, Resolver_check_this(r, expr)),
                expr, expr.keyword)
      [] expr.e = "Super" ->
            Resolver_resolve_local(
                KeywordEvent(r, expr, Resolver_check_super(r, expr)),
                expr, expr.keyword)

\* resolver.resolve(statements), as _run calls it
Resolver_resolve(r, stmts) == Resolver_resolve_list(r, stmts, 1)

-----------------------------------------------------------------------------
(* interpreter.py.  The interpreter is the record st:                      *)
(*   envs         the Environment objects created so far; an Environment   *)
(*                is named by its index, 0 stands for None                  *)
(*   environment  self.environment; self.globals is environment 1          *)
(*   instances    the LoxInstance objects created so far                    *)
(*   locals       self.locals                                               *)
(*   stdout       the lines printed                                         *)
(*   now          the reading time.time() gives next                        *)
(*   callee       history: closure of the innermost LoxFunction.call that   *)
(*                is executing, 0 at top level                              *)
(*   depth        history: the number of _execute_block calls in progress   *)
(*   trace        history: one event per block, call and variable access    *)
(* An evaluation returns [k, st, v, token, msg]: k is "ok", "LoxReturn",    *)
(* "LoxRuntimeError" or the class of a host exception.                      *)

GlobalsEnv == 1

IOk(st, v) == [k |-> "ok", st |-> st, v |-> v, token |-> None, msg |-> ""]
IRaise(st, token, msg) ==
    [k |-> "LoxRuntimeError", st |-> st, v |-> None, token |-> token,
     msg |-> msg]
IReturn(st, v) ==
    [k |-> "LoxReturn", st |-> st, v |-> v, token |-> None, msg |-> ""]
IHost(st, class) ==
    [k |-> class, st |-> st, v |-> None, token |-> None, msg |-> ""]

Log(st, event) == [st EXCEPT !.trace = Append(@, event)]

\* Environment(enclosing): the interpreter with the new object, whose name
\* is Len(st.envs) + 1
Environment(st, enclosing) ==
    [st EXCEPT !.envs = Append(@, [enclosing |-> enclosing,
                                   values |-> EmptyMap])]

Environment_define(st, env, name, value) ==
    [st EXCEPT !.envs[env].values = Put(@, name, value)]

RECURSIVE Environment_get(_, _, _)
Environment_get(st, env, name) ==
    IF name.lexeme \in DOMAIN st.envs[env].values
    THEN IOk(st, st.envs[env].values[name.lexeme])
    ELSE IF st.envs[env].enclosing # 0
    THEN Environment_get(st, st.envs[env].enclosing, name)
    ELSE IRaise(st, name, "Undefined variable " \o name.lexeme \o ".")

RECURSIVE Environment_assign(_, _, _, _)
Environment_assign(st, env, name, value) ==
    IF name.lexeme \in DOMAIN st.envs[env].values
    THEN IOk(Environment_define(st, env, name.lexeme, value), None)
    ELSE IF st.envs[env].enclosing # 0
    THEN Environment_assign(st, st.envs[env].enclosing, name, value)
    ELSE IRaise(st, name, "Undefined variable \"" \o name.lexeme \o "\".")

\* _ancestor(distance): the environment, or 0 when the assertion that the
\* enclosing environment exists fails
RECURSIVE Environment_ancestor(_, _, _)
Environment_ancestor(st, env, distance) ==
    IF distance <= 0 THEN env
    ELSE IF st.envs[env].enclosing = 0 THEN 0
    ELSE Environment_ancestor(st, st.envs[env].enclosing, distance - 1)

\* get_at(distance, name): values.get(name) of the ancestor
Environment_get_at(st, env, distance, name) ==
    (CHOOSE result \in {IF a = 0 THEN IHost(st, "AssertionError")
    ELSE IF name \in DOMAIN st.envs[a].values
    THEN IOk(st, st.envs[a].values[name])
    ELSE IOk(st, None)
    : a \in {Environment_ancestor(st, env, distance)}} : TRUE)

Environment_assign_at(st, env, distance, name, value) ==
    (CHOOSE result \in {IF a = 0 THEN IHost(st, "AssertionError")
    ELSE IOk(Environment_define(st, a, name.lexeme, value), None)
    : a \in {Environment_ancestor(st, env, distance)}} : TRUE)

\* the environment of the chain from env that binds name, 0 when none does
RECURSIVE BindingEnv(_, _, _)
BindingEnv(st, env, name) ==
    IF env = 0 THEN 0
    ELSE IF name \in DOMAIN st.envs[env].values THEN env
    ELSE BindingEnv(st, st.envs[env].enclosing, name)

LoxFunction(declaration, closure, is_initializer) ==
    [t |-> "LoxFunction", declaration |-> declaration, closure |-> closure,
     is_initializer |-> is_initializer]

LoxClass(name, superclass, methods) ==
    [t |-> "LoxClass", name |-> name, superclass |-> superclass,
     methods |-> methods]

\* a LoxInstance object is named by its index in st.instances
LoxInstanceRef(ref) == [t |-> "LoxInstance", ref |-> ref]

\* the class object ClockFunction itself (not an instance of it)
ClockFunctionClass == [t |-> "type", name |-> "ClockFunction"]

\* isinstance(v, LoxCallable): an instance of LoxFunction, LoxClass or
\* ClockFunction.  A class object is an instance of type only.
IsLoxCallable(v) == v.t \in {"LoxFunction", "LoxClass", "ClockFunction"}

\* Interpreter()
Interpreter ==
    [envs |-> <<[enclosing |-> 0,
                 values |-> Put(EmptyMap, "clock", ClockFunctionClass)]>>,
     environment |-> GlobalsEnv,
     instances |-> <<>>,
     locals |-> EmptyMap,
     stdout |-> <<>>,
     now |-> 0,
     callee |-> 0,
     depth |-> 0,
     trace |-> <<>>]

\* LoxClass.find_method(name)
LoxClass_find_method(klass, name) ==
    IF name \in DOMAIN klass.methods THEN klass.methods[name] ELSE None

\* a variant of LoxFunction.bind for the sensitivity of C15: the environment
\* of the bound method encloses nothing
LoxFunction_bind_detached(st, function, instance) ==
    (CHOOSE result \in {(CHOOSE result \in {(CHOOSE result \in {IOk(s2, LoxFunction(function.declaration, environment,
                           function.is_initializer))
    : s2 \in {Environment_define(s1, environment, "this", instance)}} : TRUE)
    : environment \in {Len(s1.envs)}} : TRUE)
    : s1 \in {Environment(st, 0)}} : TRUE)

\* LoxFunction.bind(instance): [st, v], v the bound function
LoxFunction_bind(st, function, instance) ==
    (CHOOSE result \in {(CHOOSE result \in {(CHOOSE result \in {IOk(s2, LoxFunction(function.declaration, environment,
                           function.is_initializer))
    : s2 \in {Environment_define(s1, environment, "this", instance)}} : TRUE)
    : environment \in {Len(s1.envs)}} : TRUE)
    : s1 \in {Environment(st, function.closure)}} : TRUE)

LoxFunction_arity(function) == Len(function.declaration.params)

LoxClass_arity(klass) ==
    (CHOOSE result \in {IF initializer = None THEN 0 ELSE LoxFunction_arity(initializer)
    : initializer \in {LoxClass_find_method(klass, "init")}} : TRUE)

ClockFunction_arity == 0

\* callee.arity()
Arity(callee) ==
    CASE callee.t = "LoxFunction" -> LoxFunction_arity(callee)
      [] callee.t = "LoxClass" -> LoxClass_arity(callee)
      [] callee.t = "ClockFunction" -> ClockFunction_arity

\* ClockFunction.call: time.time()
ClockFunction_call(st, arguments) ==
    IOk([st EXCEPT !.now = @ + 1], Float(st.now, 1))

\* LoxInstance.set(name, value)
LoxInstance_set(st, instance, name, value) ==
    [st EXCEPT !.instances[instance.ref].fields = Put(@, name.lexeme, value)]

\* LoxInstance.get(name)
LoxInstance_get(st, instance, name) ==
    (CHOOSE result \in {IF name.lexeme \in DOMAIN obj.fields THEN IOk(st, obj.fields[name.lexeme])
    ELSE (CHOOSE result \in {IF method # None THEN LoxFunction_bind(st, method, instance)
         ELSE IRaise(st, name,
                     "Undefined property \"" \o name.lexeme \o "\".")
         : method \in {LoxClass_find_method(obj.klass, name.lexeme)}} : TRUE)
    : obj \in {st.instances[instance.ref]}} : TRUE)

\* the digits of rem / den after the decimal point, at most n of them
RECURSIVE FractionToStr(_, _, _)
FractionToStr(rem, den, n) ==
    IF rem = 0 \/ n = 0 THEN ""
    ELSE DigitChars[((rem * 10) \div den) + 1]
         \o FractionToStr((rem * 10) % den, den, n - 1)

\* str(obj) for a float: exact for the floats that have a short decimal
\* expansion, cut after 16 digits otherwise
FloatToStr(v) ==
    (CHOOSE result \in {(CHOOSE result \in {IF v.den = 1 THEN sign \o NatToStr(a) \o ".0"
       ELSE sign \o NatToStr(a \div v.den) \o "."
                 \o FractionToStr(a % v.den, v.den, 16)
    : sign \in {IF v.num < 0 THEN "-" ELSE ""}} : TRUE)
    : a \in {Abs(v.num)}} : TRUE)

\* text.endswith('.0') and the cut text[0:len(text) - 2]
StripDotZero(v) ==
    (CHOOSE result \in {(CHOOSE result \in {IF v.den = 1 THEN sign \o NatToStr(a) ELSE FloatToStr(v)
    : sign \in {IF v.num < 0 THEN "-" ELSE ""}} : TRUE)
    : a \in {Abs(v.num)}} : TRUE)

\* _stringify(obj)
Interpreter_stringify(st, obj) ==
    CASE obj = None -> "nil"
      [] obj.t = "bool" -> IF obj.v THEN "true" ELSE "false"
      [] obj.t = "float" -> StripDotZero(obj)
      [] obj.t = "str" -> obj.v
      [] obj.t = "LoxFunction" -> "<fn " \o obj.declaration.name.lexeme \o ">"
      [] obj.t = "LoxClass" -> obj.name
      [] obj.t = "LoxInstance" ->
            st.instances[obj.ref].klass.name \o " instance"
      [] obj.t = "type" -> "<class 'interpreter." \o obj.name \o "'>"

\* _is_truthy(obj)
Interpreter_is_truthy(obj) ==
    IF obj = None THEN FALSE
    ELSE IF obj.t = "bool" THEN obj.v
    ELSE TRUE

\* _check_number_operand: whether it returns (it raises otherwise)
Interpreter_check_number_operand(operand) == IsFloat(operand)

\* _check_number_operands: whether it returns (it raises otherwise)
Interpreter_check_number_operands(left, right) == IsFloat(left) /\ IsFloat(right)

FloatLess(a, b) == a.num * b.den < b.num * a.den

RECURSIVE Interpreter_evaluate(_, _), Interpreter_execute(_, _),
          Interpreter_evaluate_call(_, _), Interpreter_while_loop(_, _),
          Interpreter_execute_block(_, _, _), Interpreter_execute_list(_, _, _),
          Interpreter_evaluate_arguments(_, _, _, _),
          LoxFunction_call(_, _, _), LoxClass_call(_, _, _), Callable_call(_, _, _),
          Interpreter_visit_binary_expr(_, _), Interpreter_visit_call_expr(_, _),
          Interpreter_visit_assign_expr(_, _),
          Interpreter_visit_logical_expr(_, _),
          Interpreter_visit_unary_expr(_, _), Interpreter_visit_get_expr(_, _),
          Interpreter_visit_set_expr(_, _), Interpreter_visit_class_stmt(_, _),
          Interpreter_visit_if_stmt(_, _), Interpreter_visit_while_stmt(_, _),
          Interpreter_visit_var_stmt(_, _), Interpreter_visit_return_stmt(_, _),
          Interpreter_visit_print_stmt(_, _), Interpreter_visit_block_stmt(_, _)

\* the history event of one variable access: the expression (by the
\* identity of its name token), the recorded distance (-1: none recorded),
\* and cell, the environment whose binding is read or written (0: none)
AccessEvent(st, expr, name, distance, cell) ==
    [ev |-> "access", e |-> expr.e, id |-> name.id, name |-> name.lexeme,
     distance |-> distance, cell |-> cell, callee |-> st.callee,
     environment |-> st.environment]

\* a variant of _lookup_variable for the sensitivity of C3: the name looked
\* up along the chain of the current environment, the recorded distance
\* ignored
Interpreter_lookup_variable_dynamic(st, name, expr) ==
    Environment_get(
        Log(st, AccessEvent(st, expr, name, 0 - 1,
                            BindingEnv(st, st.environment, name.lexeme))),
        st.environment, name)

\* _lookup_variable(name, expr), with visit_variable_expr and
\* visit_this_expr its two callers
Interpreter_lookup_variable(st, name, expr) ==
    IF expr \in DOMAIN st.locals
    THEN (CHOOSE result \in {(CHOOSE result \in {(CHOOSE result \in {Environment_get_at(
                Log(st, AccessEvent(st, expr, name, distance, cell)),
                st.environment, distance, name.lexeme)
         : cell \in {IF a # 0 /\ name.lexeme \in DOMAIN st.envs[a].values
                         THEN a ELSE 0}} : TRUE)
         : a \in {Environment_ancestor(st, st.environment, distance)}} : TRUE)
         : distance \in {st.locals[expr]}} : TRUE)
    ELSE Environment_get(
            Log(st, AccessEvent(st, expr, name, 0 - 1,
                                BindingEnv(st, GlobalsEnv, name.lexeme))),
            GlobalsEnv, name)

Interpreter_visit_assign_expr(st, expr) ==
    (CHOOSE result \in {IF r.k # "ok" THEN r
    ELSE IF Unhashable(expr) THEN IHost(r.st, "TypeError")
    ELSE (CHOOSE result \in {(CHOOSE result \in {IF w.k # "ok" THEN w ELSE IOk(w.st, r.v)
         : w \in {IF expr \in DOMAIN s1.locals
                      THEN (CHOOSE result \in {(CHOOSE result \in {(CHOOSE result \in {Environment_assign_at(
                                Log(s1, AccessEvent(s1, expr, expr.name, distance,
                                                    cell)),
                                s1.environment, distance, expr.name, r.v)
                           : cell \in {IF a # 0 /\ expr.name.lexeme
                                                        \in DOMAIN s1.envs[a].values
                                           THEN a ELSE 0}} : TRUE)
                           : a \in {Environment_ancestor(s1, s1.environment,
                                                             distance)}} : TRUE)
                           : distance \in {s1.locals[expr]}} : TRUE)
                      ELSE Environment_assign(
                            Log(s1, AccessEvent(s1, expr, expr.name, 0 - 1,
                                    BindingEnv(s1, GlobalsEnv, expr.name.lexeme))),
                            GlobalsEnv, expr.name, r.v)}} : TRUE)
         : s1 \in {r.st}} : TRUE)
    : r \in {Interpreter_evaluate(st, expr.value)}} : TRUE)

Interpreter_visit_unary_expr(st, expr) ==
    (CHOOSE result \in {IF r.k # "ok" THEN r
    ELSE IF expr.operator.token_type = "MINUS"
    THEN IF Interpreter_check_number_operand(r.v)
         THEN IOk(r.st, Float(0 - r.v.num, r.v.den))
         ELSE IRaise(r.st, expr.operator, "Operand must be a number.")
    ELSE IF expr.operator.token_type = "BANG"
    THEN IOk(r.st, PyBool(~Interpreter_is_truthy(r.v)))
    ELSE IOk(r.st, None)
    : r \in {Interpreter_evaluate(st, expr.right)}} : TRUE)
\* the history event of one visit_logical_expr: the operator, the value of
\* the left operand, whether the right operand was evaluated, and the outcome
LogicalEvent(expr, l, right, out) ==
    [out EXCEPT !.st = Log(@,
        [ev |-> "logical", operator |-> expr.operator.token_type,
         left |-> l.v, left_at |-> Len(l.st.trace), right |-> right,
         k |-> out.k, result |-> out.v])]

\* a variant of visit_logical_expr for the sensitivity of C23: both operands
\* are evaluated before the left one is tested
Interpreter_visit_logical_expr_eager(st, expr) ==
    (CHOOSE result \in {IF l.k # "ok" THEN l ELSE
    (CHOOSE result \in {IF r.k # "ok" THEN r
    ELSE IF expr.operator.token_type = "OR"
    THEN LogicalEvent(expr, l, TRUE,
            IF Interpreter_is_truthy(l.v) THEN IOk(r.st, l.v) ELSE r)
    ELSE LogicalEvent(expr, l, TRUE,
            IF ~Interpreter_is_truthy(l.v) THEN IOk(r.st, l.v) ELSE r)
    : r \in {Interpreter_evaluate(l.st, expr.right)}} : TRUE)
    : l \in {Interpreter_evaluate(st, expr.left)}} : TRUE)

Interpreter_visit_logical_expr(st, expr) ==
    (CHOOSE result \in {IF l.k # "ok" THEN l
    ELSE IF expr.operator.token_type = "OR"
    THEN IF Interpreter_is_truthy(l.v) THEN LogicalEvent(expr, l, FALSE, l)
         ELSE LogicalEvent(expr, l, TRUE,
                           Interpreter_evaluate(l.st, expr.right))
    ELSE IF ~Interpreter_is_truthy(l.v) THEN LogicalEvent(expr, l, FALSE, l)
         ELSE LogicalEvent(expr, l, TRUE,
                           Interpreter_evaluate(l.st, expr.right))
    : l \in {Interpreter_evaluate(st, expr.left)}} : TRUE)
\* the history event of one visit_binary_expr that evaluated both operands:
\* the operator, the two values, the length of the history before, after
\* the left and after the right operand, and the outcome
BinaryEvent(st, expr, l, r, out) ==
    [out EXCEPT !.st = Log(@,
        [ev |-> "binary", operator |-> expr.operator.token_type,
         left |-> l.v, right |-> r.v, from |-> Len(st.trace),
         left_at |-> Len(l.st.trace), right_at |-> Len(r.st.trace),
         k |-> out.k, msg |-> out.msg, result |-> out.v])]

\* a variant of visit_binary_expr for the sensitivity of C24: == and !=
\* compare values of any type
Interpreter_visit_binary_expr_equality(st, expr) ==
    (CHOOSE result \in {IF l.k # "ok" THEN l ELSE
    (CHOOSE result \in {IF r.k # "ok" THEN r ELSE
    (CHOOSE result \in {(CHOOSE result \in {(CHOOSE result \in {(CHOOSE result \in {(CHOOSE result \in {BinaryEvent(st, expr, l, r,
       CASE tt = "MINUS" ->
              IF ~numbers THEN notnumbers
              ELSE IOk(r.st, Float(left.num * right.den - right.num * left.den,
                                   left.den * right.den))
         [] tt = "STAR" ->
              IF ~numbers THEN notnumbers
              ELSE IOk(r.st, Float(left.num * right.num, left.den * right.den))
         [] tt = "SLASH" ->
              IF ~numbers THEN notnumbers
              ELSE IF right.num = 0
              THEN IRaise(r.st, expr.operator, "Division by zero error.")
              ELSE IOk(r.st, Float(left.num * right.den, left.den * right.num))
         [] tt = "PLUS" ->
              IF IsFloat(left) /\ IsFloat(right)
              THEN IOk(r.st, Float(left.num * right.den + right.num * left.den,
                                   left.den * right.den))
              ELSE IF IsStr(left) /\ IsStr(right)
              THEN IOk(r.st, PyStr(left.v \o right.v))
              ELSE IRaise(r.st, expr.operator,
                          "Operands must be two numbers or two strings.")
         [] tt = "GREATER" ->
              IF ~numbers THEN notnumbers
              ELSE IOk(r.st, PyBool(FloatLess(right, left)))
         [] tt = "GREATER_EQUAL" ->
              IF ~numbers THEN notnumbers
              ELSE IOk(r.st, PyBool(~FloatLess(left, right)))
         [] tt = "LESS" ->
              IF ~numbers THEN notnumbers
              ELSE IOk(r.st, PyBool(FloatLess(left, right)))
         [] tt = "LESS_EQUAL" ->
              IF ~numbers THEN notnumbers
              ELSE IOk(r.st, PyBool(~FloatLess(right, left)))
         [] tt = "BANG_EQUAL" -> IOk(r.st, PyBool(left # right))
         [] tt = "EQUAL_EQUAL" -> IOk(r.st, PyBool(left = right))
         [] OTHER -> IHost(r.st, "AssertionError"))
    : notnumbers \in {IRaise(r.st, expr.operator, "Operands must be numbers.")}} : TRUE)
    : numbers \in {Interpreter_check_number_operands(left, right)}} : TRUE)
    : right \in {r.v}} : TRUE)
    : left \in {l.v}} : TRUE)
    : tt \in {expr.operator.token_type}} : TRUE)
    : r \in {Interpreter_evaluate(l.st, expr.right)}} : TRUE)
    : l \in {Interpreter_evaluate(st, expr.left)}} : TRUE)

Interpreter_visit_binary_expr(st, expr) ==
    (CHOOSE result \in {IF l.k # "ok" THEN l ELSE
    (CHOOSE result \in {IF r.k # "ok" THEN r ELSE
    (CHOOSE result \in {(CHOOSE result \in {(CHOOSE result \in {(CHOOSE result \in {(CHOOSE result \in {BinaryEvent(st, expr, l, r,
       CASE tt = "MINUS" ->
              IF ~numbers THEN notnumbers
              ELSE IOk(r.st, Float(left.num * right.den - right.num * left.den,
                                   left.den * right.den))
         [] tt = "STAR" ->
              IF ~numbers THEN notnumbers
              ELSE IOk(r.st, Float(left.num * right.num, left.den * right.den))
         [] tt = "SLASH" ->
              IF ~numbers THEN notnumbers
              ELSE IF right.num = 0
              THEN IRaise(r.st, expr.operator, "Division by zero error.")
              ELSE IOk(r.st, Float(left.num * right.den, left.den * right.num))
         [] tt = "PLUS" ->
              IF IsFloat(left) /\ IsFloat(right)
              THEN IOk(r.st, Float(left.num * right.den + right.num * left.den,
                                   left.den * right.den))
              ELSE IF IsStr(left) /\ IsStr(right)
              THEN IOk(r.st, PyStr(left.v \o right.v))
              ELSE IRaise(r.st, expr.operator,
                          "Operands must be two numbers or two strings.")
         [] tt = "GREATER" ->
              IF ~numbers THEN notnumbers
              ELSE IOk(r.st, PyBool(FloatLess(right, left)))
         [] tt = "GREATER_EQUAL" ->
              IF ~numbers THEN notnumbers
              ELSE IOk(r.st, PyBool(~FloatLess(left, right)))
         [] tt = "LESS" ->
              IF ~numbers THEN notnumbers
              ELSE IOk(r.st, PyBool(FloatLess(left, right)))
         [] tt = "LESS_EQUAL" ->
              IF ~numbers THEN notnumbers
              ELSE IOk(r.st, PyBool(~FloatLess(right, left)))
         [] tt = "BANG_EQUAL" ->
              IF ~numbers THEN notnumbers
              ELSE IOk(r.st, PyBool(left # right))
         [] tt = "EQUAL_EQUAL" ->
              IF ~numbers THEN notnumbers
              ELSE IOk(r.st, PyBool(left = right))
         [] OTHER -> IHost(r.st, "AssertionError"))
    : notnumbers \in {IRaise(r.st, expr.operator, "Operands must be numbers.")}} : TRUE)
    : numbers \in {Interpreter_check_number_operands(left, right)}} : TRUE)
    : right \in {r.v}} : TRUE)
    : left \in {l.v}} : TRUE)
    : tt \in {expr.operator.token_type}} : TRUE)
    : r \in {Interpreter_evaluate(l.st, expr.right)}} : TRUE)
    : l \in {Interpreter_evaluate(st, expr.left)}} : TRUE)

\* the loop of visit_call_expr over the arguments: v is the list of values
Interpreter_evaluate_arguments(st, arguments, i, values) ==
    IF i > Len(arguments) THEN IOk(st, values)
    ELSE (CHOOSE result \in {IF r.k # "ok" THEN r
         ELSE Interpreter_evaluate_arguments(r.st, arguments, i + 1,
                                             Append(values, r.v))
         : r \in {Interpreter_evaluate(st, arguments[i])}} : TRUE)

\* a variant of the first lines of visit_call_expr for the sensitivity of
\* C16: the arguments of a callee that is not callable are not evaluated
Interpreter_evaluate_call_checked_first(st, expr) ==
    (CHOOSE result \in {IF c.k # "ok" THEN c ELSE
    IF ~IsLoxCallable(c.v)
    THEN IOk(c.st, [callee |-> c.v, arguments |-> <<>>,
                    callee_at |-> Len(c.st.trace)])
    ELSE
    (CHOOSE result \in {IF a.k # "ok" THEN a
    ELSE IOk(a.st, [callee |-> c.v, arguments |-> a.v,
                    callee_at |-> Len(c.st.trace)])
    : a \in {Interpreter_evaluate_arguments(c.st, expr.arguments, 1, <<>>)}} : TRUE)
    : c \in {Interpreter_evaluate(st, expr.callee)}} : TRUE)

\* the first lines of visit_call_expr: the callee is evaluated, then the
\* arguments from left to right
Interpreter_evaluate_call(st, expr) ==
    (CHOOSE result \in {IF c.k # "ok" THEN c ELSE
    (CHOOSE result \in {IF a.k # "ok" THEN a
    ELSE IOk(a.st, [callee |-> c.v, arguments |-> a.v,
                    callee_at |-> Len(c.st.trace)])
    : a \in {Interpreter_evaluate_arguments(c.st, expr.arguments, 1, <<>>)}} : TRUE)
    : c \in {Interpreter_evaluate(st, expr.callee)}} : TRUE)

\* the history event of one visit_call_expr that got to its checks: the
\* length of the history when it began, after the callee and after the
\* arguments, what the checks see and what they decide
DispatchEvent(st, expr, r, outcome) ==
    [ev |-> "dispatch", line |-> expr.paren.line,
     args |-> Len(expr.arguments), evaluated |-> Len(r.v.arguments),
     callable |-> IsLoxCallable(r.v.callee),
     arity |-> IF IsLoxCallable(r.v.callee) THEN Arity(r.v.callee) ELSE 0 - 1,
     from |-> Len(st.trace), callee_at |-> r.v.callee_at,
     args_at |-> Len(r.st.trace),
     out_from |-> Len(st.stdout), out_at |-> Len(r.st.stdout),
     outcome |-> outcome]

Interpreter_visit_call_expr(st, expr) ==
    (CHOOSE result \in {IF r.k # "ok" THEN r
    ELSE IF ~IsLoxCallable(r.v.callee)
    THEN IRaise(Log(r.st, DispatchEvent(st, expr, r, "not callable")),
                expr.paren, "Can only call functions and classes.")
    ELSE IF Len(r.v.arguments) # Arity(r.v.callee)
    THEN IRaise(Log(r.st, DispatchEvent(st, expr, r, "arity")),
                expr.paren,
                "Expected " \o NatToStr(Arity(r.v.callee))
                \o " arguments but got " \o NatToStr(Len(r.v.arguments))
                \o ".")
    ELSE Callable_call(Log(r.st, DispatchEvent(st, expr, r, "call")),
                       r.v.callee, r.v.arguments)
    : r \in {Interpreter_evaluate_call(st, expr)}} : TRUE)

\* callee.call(self, arguments)
Callable_call(st, callee, arguments) ==
    CASE callee.t = "LoxFunction" -> LoxFunction_call(st, callee, arguments)
      [] callee.t = "LoxClass" -> LoxClass_call(st, callee, arguments)
      [] callee.t = "ClockFunction" -> ClockFunction_call(st, arguments)

\* the loop of LoxFunction.call that defines the parameters
RECURSIVE LoxFunction_define_params(_, _, _, _, _)
LoxFunction_define_params(st, environment, params, arguments, i) ==
    IF i > Len(params) THEN st
    ELSE LoxFunction_define_params(
            Environment_define(st, environment, params[i].lexeme, arguments[i]),
            environment, params, arguments, i + 1)

\* the history event of one LoxFunction.call: the exit of the body (exit,
\* carried), the outcome of the call (k, result) and self.environment
\* before and after
CallEvent(st, function, environment, body, out) ==
    [ev |-> "call", name |-> function.declaration.name.lexeme,
     is_initializer |-> function.is_initializer, closure |-> function.closure,
     environment |-> environment, before |-> st.environment,
     after |-> out.st.environment, exit |-> body.k, carried |-> body.v,
     k |-> out.k, result |-> out.v, depth |-> st.depth]

\* the first lines of LoxFunction.call: environment = Environment(closure)
\* and the definitions of the parameters.  The new environment is the last
\* of envs.
LoxFunction_call_environment(st, function, arguments) ==
    LoxFunction_define_params(Environment(st, function.closure),
        Len(Environment(st, function.closure).envs),
        function.declaration.params, arguments, 1)

\* the interpreter back in the caller (callee is a history field)
LoxFunction_call_leave(st, body) == [body.st EXCEPT !.callee = st.callee]

\* a variant of the end of LoxFunction.call for the sensitivity of C8: no
\* except clause, LoxReturn leaves the call
LoxFunction_call_uncaught(st, function, environment, body) ==
    (CHOOSE result \in {(CHOOSE result \in {[out EXCEPT !.st = Log(@, CallEvent(st, function, environment, body, out))]
    : out \in {IF body.k = "ok"
                   THEN IF function.is_initializer
                        THEN Environment_get_at(s3, function.closure, 0, "this")
                        ELSE IOk(s3, None)
                   ELSE [body EXCEPT !.st = s3]}} : TRUE)
    : s3 \in {LoxFunction_call_leave(st, body)}} : TRUE)

\* a variant of the end of LoxFunction.call for the sensitivity of C9: the
\* except clause returns r.value for an initializer too
LoxFunction_call_returns_value(st, function, environment, body) ==
    (CHOOSE result \in {(CHOOSE result \in {[out EXCEPT !.st = Log(@, CallEvent(st, function, environment, body, out))]
    : out \in {IF body.k = "LoxReturn" THEN IOk(s3, body.v)
                   ELSE IF body.k = "ok"
                   THEN IF function.is_initializer
                        THEN Environment_get_at(s3, function.closure, 0, "this")
                        ELSE IOk(s3, None)
                   ELSE [body EXCEPT !.st = s3]}} : TRUE)
    : s3 \in {LoxFunction_call_leave(st, body)}} : TRUE)

\* the end of LoxFunction.call, body being how execute_block ended: the
\* except clause and the two returns after the try statement
LoxFunction_call_result(st, function, environment, body) ==
    (CHOOSE result \in {(CHOOSE result \in {[out EXCEPT !.st = Log(@, CallEvent(st, function, environment, body, out))]
    : out \in {IF body.k = "LoxReturn"
                   THEN IF function.is_initializer
                        THEN Environment_get_at(s3, function.closure, 0, "this")
                        ELSE IOk(s3, body.v)
                   ELSE IF body.k = "ok"
                   THEN IF function.is_initializer
                        THEN Environment_get_at(s3, function.closure, 0, "this")
                        ELSE IOk(s3, None)
                   ELSE [body EXCEPT !.st = s3]}} : TRUE)
    : s3 \in {LoxFunction_call_leave(st, body)}} : TRUE)

LoxFunction_call(st, function, arguments) ==
    (CHOOSE result \in {LoxFunction_call_result(st, function,
            Len(Environment(st, function.closure).envs), body)
    : body \in {Interpreter_execute_block(
                    [LoxFunction_call_environment(st, function, arguments)
                        EXCEPT !.callee = function.closure],
                    function.declaration.body,
                    Len(Environment(st, function.closure).envs))}} : TRUE)

\* the history event of one LoxClass.call: the number of instances before
\* it and its outcome
NewEvent(st, klass, out) ==
    [ev |-> "new", name |-> klass.name, instances |-> Len(st.instances),
     k |-> out.k, result |-> out.v]

LoxClass_call(st, klass, arguments) ==
    (CHOOSE result \in {(CHOOSE result \in {(CHOOSE result \in {(CHOOSE result \in {[out EXCEPT !.st = Log(@, NewEvent(st, klass, out))]
    : out \in {IF initializer # None
                   THEN (CHOOSE result \in {(CHOOSE result \in {IF r.k # "ok" THEN r ELSE IOk(r.st, instance)
                        : r \in {LoxFunction_call(b.st, b.v, arguments)}} : TRUE)
                        : b \in {LoxFunction_bind(s1, initializer, instance)}} : TRUE)
                   ELSE IOk(s1, instance)}} : TRUE)
    : initializer \in {LoxClass_find_method(klass, "init")}} : TRUE)
    : instance \in {LoxInstanceRef(Len(s1.instances))}} : TRUE)
    : s1 \in {[st EXCEPT !.instances =
                    Append(@, [klass |-> klass, fields |-> EmptyMap])]}} : TRUE)

Interpreter_visit_get_expr(st, expr) ==
    (CHOOSE result \in {IF o.k # "ok" THEN o
    ELSE IF o.v.t = "LoxInstance" THEN LoxInstance_get(o.st, o.v, expr.name)
    ELSE IRaise(o.st, expr.name, "Only instances have properties.")
    : o \in {Interpreter_evaluate(st, expr.obj)}} : TRUE)

Interpreter_visit_set_expr(st, expr) ==
    (CHOOSE result \in {IF o.k # "ok" THEN o
    ELSE IF o.v.t # "LoxInstance"
    THEN IRaise(o.st, expr.name, "Only instances have fields.")
    ELSE (CHOOSE result \in {IF r.k # "ok" THEN r
         ELSE IOk(LoxInstance_set(r.st, o.v, expr.name, r.v), r.v)
         : r \in {Interpreter_evaluate(o.st, expr.value)}} : TRUE)
    : o \in {Interpreter_evaluate(st, expr.obj)}} : TRUE)
\* the history event of one visit_super_expr: the superclass and the object
\* it read, the environment that binds "this" nearest to the current one,
\* the method it looked up and its outcome
SuperEvent(st, expr, distance, superclass, obj, out) ==
    [out EXCEPT !.st = Log(@,
        [ev |-> "super", method |-> expr.method.lexeme, line |-> expr.method.line,
         distance |-> distance, superclass |-> superclass, obj |-> obj,
         this_env |-> BindingEnv(st, st.environment, "this"),
         super_env |-> BindingEnv(st, st.environment, "super"),
         k |-> out.k, result |-> out.v,
         msg |-> IF out.k = "LoxRuntimeError" THEN out.msg ELSE ""])]

\* a variant of the end of visit_super_expr for the sensitivity of C21: the
\* method found is returned as it is, not bound to the object
Interpreter_super_method_unbound(st, expr, superclass, obj) ==
    (CHOOSE result \in {IF method = None
    THEN IRaise(st, expr.method,
                "Undefined property \"" \o expr.method.lexeme \o "\".")
    ELSE IOk(st, method)
    : method \in {LoxClass_find_method(superclass, expr.method.lexeme)}} : TRUE)

\* the end of visit_super_expr: the method of the superclass, bound to obj
Interpreter_super_method(st, expr, superclass, obj) ==
    (CHOOSE result \in {IF method = None
    THEN IRaise(st, expr.method,
                "Undefined property \"" \o expr.method.lexeme \o "\".")
    ELSE LoxFunction_bind(st, method, obj)
    : method \in {LoxClass_find_method(superclass, expr.method.lexeme)}} : TRUE)

Interpreter_visit_super_expr(st, expr) ==
    IF expr \notin DOMAIN st.locals THEN IHost(st, "KeyError") ELSE
    (CHOOSE result \in {(CHOOSE result \in {(CHOOSE result \in {(CHOOSE result \in {(CHOOSE result \in {IF superclass.k # "ok" THEN superclass ELSE
    (CHOOSE result \in {IF obj.k # "ok" THEN obj
    ELSE IF superclass.v.t # "LoxClass" THEN IHost(s1, "AttributeError")
    ELSE SuperEvent(s1, expr, distance, superclass.v, obj.v,
                    Interpreter_super_method(s1, expr, superclass.v, obj.v))
    : obj \in {Environment_get_at(s1, s1.environment, distance - 1, "this")}} : TRUE)
    : superclass \in {Environment_get_at(s1, s1.environment, distance, "super")}} : TRUE)
    : s1 \in {Log(st, AccessEvent(st, expr, expr.keyword, distance, cell))}} : TRUE)
    : cell \in {IF a # 0 /\ "super" \in DOMAIN st.envs[a].values THEN a ELSE 0}} : TRUE)
    : a \in {Environment_ancestor(st, st.environment, distance)}} : TRUE)
    : distance \in {st.locals[expr]}} : TRUE)

\* _evaluate(expr): expr.accept(self)
Interpreter_evaluate(st, expr) ==
    CASE expr.e = "Literal" -> IOk(st, expr.value)
      [] expr.e = "Grouping" -> Interpreter_evaluate(st, expr.expression)
      [] expr.e = "Unary" -> Interpreter_visit_unary_expr(st, expr)
      [] expr.e = "Binary" -> Interpreter_visit_binary_expr(st, expr)
      [] expr.e = "Logical" -> Interpreter_visit_logical_expr(st, expr)
      [] expr.e = "Variable" -> Interpreter_lookup_variable(st, expr.name, expr)
      [] expr.e = "Assign" -> Interpreter_visit_assign_expr(st, expr)
      [] expr.e = "Call" -> Interpreter_visit_call_expr(st, expr)
      [] expr.e = "Get" -> Interpreter_visit_get_expr(st, expr)
      [] expr.e = "Set" -> Interpreter_visit_set_expr(st, expr)
      [] expr.e = "This" -> Interpreter_lookup_variable(st, expr.keyword, expr)
      [] expr.e = "Super" -> Interpreter_visit_super_expr(st, expr)

Interpreter_visit_print_stmt(st, stmt) ==
    (CHOOSE result \in {IF r.k # "ok" THEN r
    ELSE IOk([r.st EXCEPT !.stdout =
                    Append(@, Interpreter_stringify(r.st, r.v))], None)
    : r \in {Interpreter_evaluate(st, stmt.expression)}} : TRUE)

Interpreter_visit_var_stmt(st, stmt) ==
    (CHOOSE result \in {IF r.k # "ok" THEN r
       ELSE IOk(Environment_define(r.st, r.st.environment, stmt.name.lexeme,
                                   r.v), None)
    : r \in {IF stmt.initializer # None
             THEN Interpreter_evaluate(st, stmt.initializer)
             ELSE IOk(st, None)}} : TRUE)

\* the history event of one visit_block_stmt
BlockEvent(st, out) ==
    [ev |-> "block", before |-> st.environment, after |-> out.st.environment,
     exit |-> out.k, depth |-> st.depth]

Interpreter_visit_block_stmt(st, stmt) ==
    (CHOOSE result \in {[out EXCEPT !.st = Log(@, BlockEvent(st, out))]
    : out \in {Interpreter_execute_block(Environment(st, st.environment),
                    stmt.statements,
                    Len(Environment(st, st.environment).envs))}} : TRUE)

\* the loop of visit_class_stmt over the methods: the methods dict
RECURSIVE Interpreter_class_methods(_, _, _, _)
Interpreter_class_methods(st, methods, i, dict) ==
    IF i > Len(methods) THEN dict
    ELSE Interpreter_class_methods(st, methods, i + 1,
            Put(dict, methods[i].name.lexeme,
                LoxFunction(methods[i], st.environment,
                            methods[i].name.lexeme = "init")))

\* the history event of one visit_class_stmt that evaluated its superclass
\* clause: the current environment and its bindings before and after, the
\* superclass value, the class value made, and the environments of the
\* methods' closures as they are after the statement
ClassEvent(st, stmt, superclass, klass, out) ==
    [out EXCEPT !.st = Log(@,
        [ev |-> "class", name |-> stmt.name.lexeme, line |-> stmt.name.line,
         clause |-> stmt.superclass # None,
         methods |-> {stmt.methods[i].name.lexeme : i \in DOMAIN stmt.methods},
         before |-> st.environment, after |-> out.st.environment,
         made |-> Len(st.envs),
         values_before |-> st.envs[st.environment].values,
         values_after |-> out.st.envs[st.environment].values,
         superclass |-> superclass, klass |-> klass,
         closures |-> IF klass = None THEN {}
                      ELSE {[method |-> m,
                             closure |-> klass.methods[m].closure,
                             enclosing |->
                                out.st.envs[klass.methods[m].closure].enclosing,
                             values |->
                                out.st.envs[klass.methods[m].closure].values,
                             is_initializer |->
                                klass.methods[m].is_initializer] :
                                m \in DOMAIN klass.methods},
         k |-> out.k, msg |-> out.msg])]

\* visit_class_stmt as it would be if the environment holding super were
\* never popped
Interpreter_visit_class_stmt_unpopped(st, stmt) ==
    (CHOOSE result \in {IF r.k # "ok" THEN r
    ELSE IF stmt.superclass # None /\ r.v.t # "LoxClass"
    THEN ClassEvent(st, stmt, r.v, None,
            IRaise(r.st, stmt.superclass.name,
                   "Superclass must be a class."))
    ELSE
    (CHOOSE result \in {(CHOOSE result \in {(CHOOSE result \in {(CHOOSE result \in {(CHOOSE result \in {(CHOOSE result \in {ClassEvent(st, stmt, superclass, klass,
            Environment_assign(s3, s3.environment, stmt.name, klass))
    : s3 \in {s2}} : TRUE)
    : klass \in {LoxClass(stmt.name.lexeme, superclass, methods)}} : TRUE)
    : methods \in {Interpreter_class_methods(s2, stmt.methods, 1, EmptyMap)}} : TRUE)
    : s2 \in {IF stmt.superclass # None
                  THEN (CHOOSE result \in {Environment_define([n EXCEPT !.environment = Len(n.envs)],
                                          Len(n.envs), "super", superclass)
                       : n \in {Environment(s1, s1.environment)}} : TRUE)
                  ELSE s1}} : TRUE)
    : s1 \in {Environment_define(r.st, r.st.environment, stmt.name.lexeme, None)}} : TRUE)
    : superclass \in {r.v}} : TRUE)
    : r \in {IF stmt.superclass # None
             THEN Interpreter_evaluate(st, stmt.superclass)
             ELSE IOk(st, None)}} : TRUE)

Interpreter_visit_class_stmt(st, stmt) ==
    (CHOOSE result \in {IF r.k # "ok" THEN r
    ELSE IF stmt.superclass # None /\ r.v.t # "LoxClass"
    THEN ClassEvent(st, stmt, r.v, None,
            IRaise(r.st, stmt.superclass.name,
                   "Superclass must be a class."))
    ELSE
    (CHOOSE result \in {(CHOOSE result \in {(CHOOSE result \in {(CHOOSE result \in {(CHOOSE result \in {(CHOOSE result \in {ClassEvent(st, stmt, superclass, klass,
            Environment_assign(s3, s3.environment, stmt.name, klass))
    : s3 \in {IF superclass # None
                  THEN [s2 EXCEPT !.environment = s2.envs[s2.environment].enclosing]
                  ELSE s2}} : TRUE)
    : klass \in {LoxClass(stmt.name.lexeme, superclass, methods)}} : TRUE)
    : methods \in {Interpreter_class_methods(s2, stmt.methods, 1, EmptyMap)}} : TRUE)
    : s2 \in {IF stmt.superclass # None
                  THEN (CHOOSE result \in {Environment_define([n EXCEPT !.environment = Len(n.envs)],
                                          Len(n.envs), "super", superclass)
                       : n \in {Environment(s1, s1.environment)}} : TRUE)
                  ELSE s1}} : TRUE)
    : s1 \in {Environment_define(r.st, r.st.environment, stmt.name.lexeme, None)}} : TRUE)
    : superclass \in {r.v}} : TRUE)
    : r \in {IF stmt.superclass # None
             THEN Interpreter_evaluate(st, stmt.superclass)
             ELSE IOk(st, None)}} : TRUE)

Interpreter_visit_if_stmt(st, stmt) ==
    (CHOOSE result \in {IF r.k # "ok" THEN r
    ELSE IF Interpreter_is_truthy(r.v)
    THEN Interpreter_execute(r.st, stmt.then_branch)
    ELSE IF stmt.else_branch # None
    THEN Interpreter_execute(r.st, stmt.else_branch)
    ELSE IOk(r.st, None)
    : r \in {Interpreter_evaluate(st, stmt.condition)}} : TRUE)

\* the while loop of visit_while_stmt: b is how the body went the last time
Interpreter_while_loop(b, stmt) ==
    IF b.k # "ok" THEN b ELSE
    (CHOOSE result \in {IF r.k # "ok" THEN r
    ELSE IF Interpreter_is_truthy(r.v)
    THEN Interpreter_while_loop(Interpreter_execute(r.st, stmt.body), stmt)
    ELSE IOk(r.st, None)
    : r \in {Interpreter_evaluate(b.st, stmt.condition)}} : TRUE)

Interpreter_visit_while_stmt(st, stmt) ==
    Interpreter_while_loop(IOk(st, None), stmt)

Interpreter_visit_function_stmt(st, stmt) ==
    IOk(Environment_define(st, st.environment, stmt.name.lexeme,
                           LoxFunction(stmt, st.environment, FALSE)), None)

Interpreter_visit_return_stmt(st, stmt) ==
    (CHOOSE result \in {IF r.k # "ok" THEN r ELSE IReturn(r.st, r.v)
    : r \in {IF stmt.value # None THEN Interpreter_evaluate(st, stmt.value)
             ELSE IOk(st, None)}} : TRUE)

\* _execute(stmt): stmt.accept(self)
Interpreter_execute(st, stmt) ==
    CASE stmt.s = "Expression" ->
            (CHOOSE result \in {IF r.k # "ok" THEN r ELSE IOk(r.st, None)
            : r \in {Interpreter_evaluate(st, stmt.expression)}} : TRUE)
      [] stmt.s = "Print" -> Interpreter_visit_print_stmt(st, stmt)
      [] stmt.s = "Var" -> Interpreter_visit_var_stmt(st, stmt)
      [] stmt.s = "Block" -> Interpreter_visit_block_stmt(st, stmt)
      [] stmt.s = "Class" -> Interpreter_visit_class_stmt(st, stmt)
      [] stmt.s = "If" -> Interpreter_visit_if_stmt(st, stmt)
      [] stmt.s = "While" -> Interpreter_visit_while_stmt(st, stmt)
      [] stmt.s = "Function" -> Interpreter_visit_function_stmt(st, stmt)
      [] stmt.s = "Return" -> Interpreter_visit_return_stmt(st, stmt)

\* the for loop of _execute_block, from statement i: r is how the statements
\* before it went, and the loop is over as soon as one of them raised
Interpreter_execute_list(r, stmts, i) ==
    CASE r.k # "ok" -> r
      [] r.k = "ok" /\ i > Len(stmts) -> IOk(r.st, None)
      [] OTHER ->
            IF stmts[i] = None THEN IHost(r.st, "AssertionError")
            ELSE Interpreter_execute_list(
                    Interpreter_execute(r.st, stmts[i]), stmts, i + 1)

\* a variant of _execute_block for the sensitivity of C1: the assignment
\* self.environment = previous after the loop instead of in a finally clause
Interpreter_execute_block_no_finally(st, stmts, environment) ==
    (CHOOSE result \in {IF r.k = "ok"
       THEN [r EXCEPT !.st.environment = st.environment, !.st.depth = st.depth]
       ELSE [r EXCEPT !.st.depth = st.depth]
    : r \in {Interpreter_execute_list(
                IOk([st EXCEPT !.environment = environment, !.depth = @ + 1],
                    None),
                stmts, 1)}} : TRUE)

\* _execute_block(statements, environment): previous = self.environment, and
\* the finally clause restores it however the loop ends
Interpreter_execute_block(st, stmts, environment) ==
    (CHOOSE result \in {[r EXCEPT !.st.environment = st.environment, !.st.depth = st.depth]
    : r \in {Interpreter_execute_list(
                IOk([st EXCEPT !.environment = environment, !.depth = @ + 1],
                    None),
                stmts, 1)}} : TRUE)

-----------------------------------------------------------------------------
(* The script files the model runs.  A file is the sequence of its          *)
(* characters.                                                              *)

\*   var a = "global";
\*   {
\*     fun showA() { print a; }
\*     showA();
\*     var a = "block";
\*     showA();
\*   }
Prog_closure ==
    <<
    "v", "a", "r", " ", "a", " ", "=", " ", "\"", "g", "l", "o", "b", "a",
    "l", "\"", ";", "\n", "{", "\n", " ", " ", "f", "u", "n", " ", "s", "h",
    "o", "w", "A", "(", ")", " ", "{", " ", "p", "r", "i", "n", "t", " ", "a",
    ";", " ", "}", "\n", " ", " ", "s", "h", "o", "w", "A", "(", ")", ";",
    "\n", " ", " ", "v", "a", "r", " ", "a", " ", "=", " ", "\"", "b", "l",
    "o", "c", "k", "\"", ";", "\n", " ", " ", "s", "h", "o", "w", "A", "(",
    ")", ";", "\n", "}", "\n"
    >>

\*   fun f(n) { { if (n > 0) { return n; } } return 0 - n; }
\*   print f(1);
\*   print f(0 - 2);
Prog_unwind ==
    <<
    "f", "u", "n", " ", "f", "(", "n", ")", " ", "{", " ", "{", " ", "i", "f",
    " ", "(", "n", " ", ">", " ", "0", ")", " ", "{", " ", "r", "e", "t", "u",
    "r", "n", " ", "n", ";", " ", "}", " ", "}", " ", "r", "e", "t", "u", "r",
    "n", " ", "0", " ", "-", " ", "n", ";", " ", "}", "\n", "p", "r", "i",
    "n", "t", " ", "f", "(", "1", ")", ";", "\n", "p", "r", "i", "n", "t",
    " ", "f", "(", "0", " ", "-", " ", "2", ")", ";", "\n"
    >>

\*   fun e() { }
\*   fun h() { { return 1; } }
\*   fun g() { { e(); print h(); 1 / 0; } }
\*   print "before";
\*   { { } g(); }
\*   print "after";
Prog_error_unwind ==
    <<
    "f", "u", "n", " ", "e", "(", ")", " ", "{", " ", "}", "\n", "f", "u",
    "n", " ", "h", "(", ")", " ", "{", " ", "{", " ", "r", "e", "t", "u", "r",
    "n", " ", "1", ";", " ", "}", " ", "}", "\n", "f", "u", "n", " ", "g",
    "(", ")", " ", "{", " ", "{", " ", "e", "(", ")", ";", " ", "p", "r", "i",
    "n", "t", " ", "h", "(", ")", ";", " ", "1", " ", "/", " ", "0", ";", " ",
    "}", " ", "}", "\n", "p", "r", "i", "n", "t", " ", "\"", "b", "e", "f",
    "o", "r", "e", "\"", ";", "\n", "{", " ", "{", " ", "}", " ", "g", "(",
    ")", ";", " ", "}", "\n", "p", "r", "i", "n", "t", " ", "\"", "a", "f",
    "t", "e", "r", "\"", ";", "\n"
    >>

\*   print "a";
\*   1 / 0;
\*   print "b";
Prog_runtime_error ==
    <<
    "p", "r", "i", "n", "t", " ", "\"", "a", "\"", ";", "\n", "1", " ", "/",
    " ", "0", ";", "\n", "p", "r", "i", "n", "t", " ", "\"", "b", "\"", ";",
    "\n"
    >>

\*   class A { m() { print "A"; } }
\*   class B < A {}
\*   B().m();
Prog_inherit ==
    <<
    "c", "l", "a", "s", "s", " ", "A", " ", "{", " ", "m", "(", ")", " ", "{",
    " ", "p", "r", "i", "n", "t", " ", "\"", "A", "\"", ";", " ", "}", " ",
    "}", "\n", "c", "l", "a", "s", "s", " ", "B", " ", "<", " ", "A", " ",
    "{", "}", "\n", "B", "(", ")", ".", "m", "(", ")", ";", "\n"
    >>

\*   class A { init(x) { this.x = x; } }
\*   class B < A {}
\*   print B(1).x;
Prog_inherit_init ==
    <<
    "c", "l", "a", "s", "s", " ", "A", " ", "{", " ", "i", "n", "i", "t", "(",
    "x", ")", " ", "{", " ", "t", "h", "i", "s", ".", "x", " ", "=", " ", "x",
    ";", " ", "}", " ", "}", "\n", "c", "l", "a", "s", "s", " ", "B", " ",
    "<", " ", "A", " ", "{", "}", "\n", "p", "r", "i", "n", "t", " ", "B",
    "(", "1", ")", ".", "x", ";", "\n"
    >>

\*   print clock;
\*   print clock() >= 0;
Prog_clock ==
    <<
    "p", "r", "i", "n", "t", " ", "c", "l", "o", "c", "k", ";", "\n", "p",
    "r", "i", "n", "t", " ", "c", "l", "o", "c", "k", "(", ")", " ", ">", "=",
    " ", "0", ";", "\n"
    >>

\*   class A { init() { return; } }
\*   class P { init(x) { this.x = x; } }
\*   var a = A();
\*   print a;
\*   print a.init();
\*   var p = P(3);
\*   print p.init(4);
\*   print p.x;
Prog_init ==
    <<
    "c", "l", "a", "s", "s", " ", "A", " ", "{", " ", "i", "n", "i", "t", "(",
    ")", " ", "{", " ", "r", "e", "t", "u", "r", "n", ";", " ", "}", " ", "}",
    "\n", "c", "l", "a", "s", "s", " ", "P", " ", "{", " ", "i", "n", "i",
    "t", "(", "x", ")", " ", "{", " ", "t", "h", "i", "s", ".", "x", " ", "=",
    " ", "x", ";", " ", "}", " ", "}", "\n", "v", "a", "r", " ", "a", " ",
    "=", " ", "A", "(", ")", ";", "\n", "p", "r", "i", "n", "t", " ", "a",
    ";", "\n", "p", "r", "i", "n", "t", " ", "a", ".", "i", "n", "i", "t",
    "(", ")", ";", "\n", "v", "a", "r", " ", "p", " ", "=", " ", "P", "(",
    "3", ")", ";", "\n", "p", "r", "i", "n", "t", " ", "p", ".", "i", "n",
    "i", "t", "(", "4", ")", ";", "\n", "p", "r", "i", "n", "t", " ", "p",
    ".", "x", ";", "\n"
    >>

\*   class A { m() { return "A"; } }
\*   class B < A {
\*     init(x) { this.x = x; }
\*     m(y) { var r = super.m(); { r = r + this.x + y; } return r; }
\*   }
\*   print B("b").m("c");
Prog_scopes ==
    <<
    "c", "l", "a", "s", "s", " ", "A", " ", "{", " ", "m", "(", ")", " ", "{",
    " ", "r", "e", "t", "u", "r", "n", " ", "\"", "A", "\"", ";", " ", "}",
    " ", "}", "\n", "c", "l", "a", "s", "s", " ", "B", " ", "<", " ", "A",
    " ", "{", "\n", " ", " ", "i", "n", "i", "t", "(", "x", ")", " ", "{",
    " ", "t", "h", "i", "s", ".", "x", " ", "=", " ", "x", ";", " ", "}",
    "\n", " ", " ", "m", "(", "y", ")", " ", "{", " ", "v", "a", "r", " ",
    "r", " ", "=", " ", "s", "u", "p", "e", "r", ".", "m", "(", ")", ";", " ",
    "{", " ", "r", " ", "=", " ", "r", " ", "+", " ", "t", "h", "i", "s", ".",
    "x", " ", "+", " ", "y", ";", " ", "}", " ", "r", "e", "t", "u", "r", "n",
    " ", "r", ";", " ", "}", "\n", "}", "\n", "p", "r", "i", "n", "t", " ",
    "B", "(", "\"", "b", "\"", ")", ".", "m", "(", "\"", "c", "\"", ")", ";",
    "\n"
    >>

\*   class A { init() { return; } }
\*   fun bare() { return; }
\*   fun f() { var i = 0; while (true) { { if (i >= 2) return i; } i = i + 1; } }
\*   fun outer() { fun inner() { return "i"; } return "o" + inner(); }
\*   print A().init();
\*   print bare();
\*   print f();
\*   print outer();
Prog_returns ==
    <<
    "c", "l", "a", "s", "s", " ", "A", " ", "{", " ", "i", "n", "i", "t", "(",
    ")", " ", "{", " ", "r", "e", "t", "u", "r", "n", ";", " ", "}", " ", "}",
    "\n", "f", "u", "n", " ", "b", "a", "r", "e", "(", ")", " ", "{", " ",
    "r", "e", "t", "u", "r", "n", ";", " ", "}", "\n", "f", "u", "n", " ",
    "f", "(", ")", " ", "{", " ", "v", "a", "r", " ", "i", " ", "=", " ", "0",
    ";", " ", "w", "h", "i", "l", "e", " ", "(", "t", "r", "u", "e", ")", " ",
    "{", " ", "{", " ", "i", "f", " ", "(", "i", " ", ">", "=", " ", "2", ")",
    " ", "r", "e", "t", "u", "r", "n", " ", "i", ";", " ", "}", " ", "i", " ",
    "=", " ", "i", " ", "+", " ", "1", ";", " ", "}", " ", "}", "\n", "f",
    "u", "n", " ", "o", "u", "t", "e", "r", "(", ")", " ", "{", " ", "f", "u",
    "n", " ", "i", "n", "n", "e", "r", "(", ")", " ", "{", " ", "r", "e", "t",
    "u", "r", "n", " ", "\"", "i", "\"", ";", " ", "}", " ", "r", "e", "t",
    "u", "r", "n", " ", "\"", "o", "\"", " ", "+", " ", "i", "n", "n", "e",
    "r", "(", ")", ";", " ", "}", "\n", "p", "r", "i", "n", "t", " ", "A",
    "(", ")", ".", "i", "n", "i", "t", "(", ")", ";", "\n", "p", "r", "i",
    "n", "t", " ", "b", "a", "r", "e", "(", ")", ";", "\n", "p", "r", "i",
    "n", "t", " ", "f", "(", ")", ";", "\n", "p", "r", "i", "n", "t", " ",
    "o", "u", "t", "e", "r", "(", ")", ";", "\n"
    >>

\*   class A { init() { this.x = 1 / 0; } }
\*   print "new";
\*   A();
Prog_init_error ==
    <<
    "c", "l", "a", "s", "s", " ", "A", " ", "{", " ", "i", "n", "i", "t", "(",
    ")", " ", "{", " ", "t", "h", "i", "s", ".", "x", " ", "=", " ", "1", " ",
    "/", " ", "0", ";", " ", "}", " ", "}", "\n", "p", "r", "i", "n", "t",
    " ", "\"", "n", "e", "w", "\"", ";", "\n", "A", "(", ")", ";", "\n"
    >>

\*   class A { m() { print "A"; } }
\*   class B < A { m() { super.m(); print "B"; } }
\*   B().m();
Prog_super ==
    <<
    "c", "l", "a", "s", "s", " ", "A", " ", "{", " ", "m", "(", ")", " ", "{",
    " ", "p", "r", "i", "n", "t", " ", "\"", "A", "\"", ";", " ", "}", " ",
    "}", "\n", "c", "l", "a", "s", "s", " ", "B", " ", "<", " ", "A", " ",
    "{", " ", "m", "(", ")", " ", "{", " ", "s", "u", "p", "e", "r", ".", "m",
    "(", ")", ";", " ", "p", "r", "i", "n", "t", " ", "\"", "B", "\"", ";",
    " ", "}", " ", "}", "\n", "B", "(", ")", ".", "m", "(", ")", ";", "\n"
    >>

\*   class C { get() { return this.v; } }
\*   var c = C();
\*   c.v = 7;
\*   print c.get();
Prog_this ==
    <<
    "c", "l", "a", "s", "s", " ", "C", " ", "{", " ", "g", "e", "t", "(", ")",
    " ", "{", " ", "r", "e", "t", "u", "r", "n", " ", "t", "h", "i", "s", ".",
    "v", ";", " ", "}", " ", "}", "\n", "v", "a", "r", " ", "c", " ", "=",
    " ", "C", "(", ")", ";", "\n", "c", ".", "v", " ", "=", " ", "7", ";",
    "\n", "p", "r", "i", "n", "t", " ", "c", ".", "g", "e", "t", "(", ")",
    ";", "\n"
    >>

\*   print 1;
\*   print ;
\*   print 2;
Prog_parse_error ==
    <<
    "p", "r", "i", "n", "t", " ", "1", ";", "\n", "p", "r", "i", "n", "t",
    " ", ";", "\n", "p", "r", "i", "n", "t", " ", "2", ";", "\n"
    >>

\*   print "x";
\*   @
Prog_scan_error ==
    <<
    "p", "r", "i", "n", "t", " ", "\"", "x", "\"", ";", "\n", "@", "\n"
    >>

\*   print "x";
\*   return 1;
Prog_resolve_error ==
    <<
    "p", "r", "i", "n", "t", " ", "\"", "x", "\"", ";", "\n", "r", "e", "t",
    "u", "r", "n", " ", "1", ";", "\n"
    >>

\*   print "x";
\*   { var a = a; }
Prog_self_init ==
    <<
    "p", "r", "i", "n", "t", " ", "\"", "x", "\"", ";", "\n", "{", " ", "v",
    "a", "r", " ", "a", " ", "=", " ", "a", ";", " ", "}", "\n"
    >>

\*   var a;
\*   fun f() { return 1; }
\*   a = f();
\*   print a;
Prog_assign_call ==
    <<
    "v", "a", "r", " ", "a", ";", "\n", "f", "u", "n", " ", "f", "(", ")",
    " ", "{", " ", "r", "e", "t", "u", "r", "n", " ", "1", ";", " ", "}",
    "\n", "a", " ", "=", " ", "f", "(", ")", ";", "\n", "p", "r", "i", "n",
    "t", " ", "a", ";", "\n"
    >>

\*   print "x";
\*   { var a; a = clock(); }
Prog_local_assign_call ==
    <<
    "p", "r", "i", "n", "t", " ", "\"", "x", "\"", ";", "\n", "{", " ", "v",
    "a", "r", " ", "a", ";", " ", "a", " ", "=", " ", "c", "l", "o", "c", "k",
    "(", ")", ";", " ", "}", "\n"
    >>

\*   var i = 0;
\*   while (i < 3) { print i; i = i + 1; }
Prog_while ==
    <<
    "v", "a", "r", " ", "i", " ", "=", " ", "0", ";", "\n", "w", "h", "i",
    "l", "e", " ", "(", "i", " ", "<", " ", "3", ")", " ", "{", " ", "p", "r",
    "i", "n", "t", " ", "i", ";", " ", "i", " ", "=", " ", "i", " ", "+", " ",
    "1", ";", " ", "}", "\n"
    >>

\*   fun fib(n) { if (n < 2) return n; return fib(n - 1) + fib(n - 2); }
\*   print fib(3);
Prog_fib ==
    <<
    "f", "u", "n", " ", "f", "i", "b", "(", "n", ")", " ", "{", " ", "i", "f",
    " ", "(", "n", " ", "<", " ", "2", ")", " ", "r", "e", "t", "u", "r", "n",
    " ", "n", ";", " ", "r", "e", "t", "u", "r", "n", " ", "f", "i", "b", "(",
    "n", " ", "-", " ", "1", ")", " ", "+", " ", "f", "i", "b", "(", "n", " ",
    "-", " ", "2", ")", ";", " ", "}", "\n", "p", "r", "i", "n", "t", " ",
    "f", "i", "b", "(", "3", ")", ";", "\n"
    >>

\*   fun make() { var c = 0; fun inc() { c = c + 1; return c; } return inc; }
\*   var f = make();
\*   print f();
\*   print f();
Prog_counter ==
    <<
    "f", "u", "n", " ", "m", "a", "k", "e", "(", ")", " ", "{", " ", "v", "a",
    "r", " ", "c", " ", "=", " ", "0", ";", " ", "f", "u", "n", " ", "i", "n",
    "c", "(", ")", " ", "{", " ", "c", " ", "=", " ", "c", " ", "+", " ", "1",
    ";", " ", "r", "e", "t", "u", "r", "n", " ", "c", ";", " ", "}", " ", "r",
    "e", "t", "u", "r", "n", " ", "i", "n", "c", ";", " ", "}", "\n", "v",
    "a", "r", " ", "f", " ", "=", " ", "m", "a", "k", "e", "(", ")", ";",
    "\n", "p", "r", "i", "n", "t", " ", "f", "(", ")", ";", "\n", "p", "r",
    "i", "n", "t", " ", "f", "(", ")", ";", "\n"
    >>

\*   fun outer() { fun inner() { return "i"; } var x = inner(); return "o" + x; }
\*   print outer();
\*   print inner;
Prog_nested_return ==
    <<
    "f", "u", "n", " ", "o", "u", "t", "e", "r", "(", ")", " ", "{", " ", "f",
    "u", "n", " ", "i", "n", "n", "e", "r", "(", ")", " ", "{", " ", "r", "e",
    "t", "u", "r", "n", " ", "\"", "i", "\"", ";", " ", "}", " ", "v", "a",
    "r", " ", "x", " ", "=", " ", "i", "n", "n", "e", "r", "(", ")", ";", " ",
    "r", "e", "t", "u", "r", "n", " ", "\"", "o", "\"", " ", "+", " ", "x",
    ";", " ", "}", "\n", "p", "r", "i", "n", "t", " ", "o", "u", "t", "e",
    "r", "(", ")", ";", "\n", "p", "r", "i", "n", "t", " ", "i", "n", "n",
    "e", "r", ";", "\n"
    >>

\*   print x;
Prog_undefined ==
    <<
    "p", "r", "i", "n", "t", " ", "x", ";", "\n"
    >>

\*   (the empty file)
Prog_empty == <<>>

\*   "a
\*   b";
\*   // c
\*   /* d
\*    * e */ print 1.5;
Prog_scan_lines ==
    <<
    "\"", "a", "\n", "b", "\"", ";", "\n", "/", "/", " ", "c", "\n", "/", "*",
    " ", "d", "\n", " ", "*", " ", "e", " ", "*", "/", " ", "p", "r", "i",
    "n", "t", " ", "1", ".", "5", ";", "\n"
    >>

\*   print 1;
\*   "a
\*   b
Prog_unterminated_string ==
    <<
    "p", "r", "i", "n", "t", " ", "1", ";", "\n", "\"", "a", "\n", "b"
    >>

\*   print 1; /* a
\*   
\*   b *
Prog_unterminated_comment ==
    <<
    "p", "r", "i", "n", "t", " ", "1", ";", " ", "/", "*", " ", "a", "\n",
    "\n", "b", " ", "*"
    >>

\*   print 1;
\*   (the character U+00B2, SUPERSCRIPT TWO)
Prog_superscript ==
    <<
    "p", "r", "i", "n", "t", " ", "1", ";", "\n", "SUPERSCRIPT TWO", "\n"
    >>

\*   var 1 + 2; print 1;
\*   1 2 print 3;
\*   { print ; 3; }
\*   fun f() { var ; }
\*   print
Prog_recovery ==
    <<
    "v", "a", "r", " ", "1", " ", "+", " ", "2", ";", " ", "p", "r", "i", "n",
    "t", " ", "1", ";", "\n", "1", " ", "2", " ", "p", "r", "i", "n", "t",
    " ", "3", ";", "\n", "{", " ", "p", "r", "i", "n", "t", " ", ";", " ",
    "3", ";", " ", "}", "\n", "f", "u", "n", " ", "f", "(", ")", " ", "{",
    " ", "v", "a", "r", " ", ";", " ", "}", "\n", "p", "r", "i", "n", "t"
    >>

\*   fun p(x) { print x; return x; }
\*   fun g() { print "callee"; return "s"; }
\*   g()(p(1), p(2));
\*   print "after";
Prog_call_not_callable ==
    <<
    "f", "u", "n", " ", "p", "(", "x", ")", " ", "{", " ", "p", "r", "i", "n",
    "t", " ", "x", ";", " ", "r", "e", "t", "u", "r", "n", " ", "x", ";", " ",
    "}", "\n", "f", "u", "n", " ", "g", "(", ")", " ", "{", " ", "p", "r",
    "i", "n", "t", " ", "\"", "c", "a", "l", "l", "e", "e", "\"", ";", " ",
    "r", "e", "t", "u", "r", "n", " ", "\"", "s", "\"", ";", " ", "}", "\n",
    "g", "(", ")", "(", "p", "(", "1", ")", ",", " ", "p", "(", "2", ")", ")",
    ";", "\n", "p", "r", "i", "n", "t", " ", "\"", "a", "f", "t", "e", "r",
    "\"", ";", "\n"
    >>

\*   fun p(x) { print x; return x; }
\*   fun f(a) { print "body"; }
\*   fun g() { print "callee"; return f; }
\*   g()(p(3));
\*   g()(p(1), p(2));
\*   print "after";
Prog_call_arity ==
    <<
    "f", "u", "n", " ", "p", "(", "x", ")", " ", "{", " ", "p", "r", "i", "n",
    "t", " ", "x", ";", " ", "r", "e", "t", "u", "r", "n", " ", "x", ";", " ",
    "}", "\n", "f", "u", "n", " ", "f", "(", "a", ")", " ", "{", " ", "p",
    "r", "i", "n", "t", " ", "\"", "b", "o", "d", "y", "\"", ";", " ", "}",
    "\n", "f", "u", "n", " ", "g", "(", ")", " ", "{", " ", "p", "r", "i",
    "n", "t", " ", "\"", "c", "a", "l", "l", "e", "e", "\"", ";", " ", "r",
    "e", "t", "u", "r", "n", " ", "f", ";", " ", "}", "\n", "g", "(", ")",
    "(", "p", "(", "3", ")", ")", ";", "\n", "g", "(", ")", "(", "p", "(",
    "1", ")", ",", " ", "p", "(", "2", ")", ")", ";", "\n", "p", "r", "i",
    "n", "t", " ", "\"", "a", "f", "t", "e", "r", "\"", ";", "\n"
    >>

\*   print "start";
\*   { var a = 1; var a = 2; print a; }
\*   fun f(a, a) { }
\*   fun g(b) { var b = 1; }
\*   { fun h() { } class h { } var h; }
Prog_local_redeclare ==
    <<
    "p", "r", "i", "n", "t", " ", "\"", "s", "t", "a", "r", "t", "\"", ";",
    "\n", "{", " ", "v", "a", "r", " ", "a", " ", "=", " ", "1", ";", " ",
    "v", "a", "r", " ", "a", " ", "=", " ", "2", ";", " ", "p", "r", "i", "n",
    "t", " ", "a", ";", " ", "}", "\n", "f", "u", "n", " ", "f", "(", "a",
    ",", " ", "a", ")", " ", "{", " ", "}", "\n", "f", "u", "n", " ", "g",
    "(", "b", ")", " ", "{", " ", "v", "a", "r", " ", "b", " ", "=", " ", "1",
    ";", " ", "}", "\n", "{", " ", "f", "u", "n", " ", "h", "(", ")", " ",
    "{", " ", "}", " ", "c", "l", "a", "s", "s", " ", "h", " ", "{", " ", "}",
    " ", "v", "a", "r", " ", "h", ";", " ", "}", "\n"
    >>

\*   var a = 1;
\*   print a;
\*   var a = 2;
\*   print a;
\*   fun a() { }
\*   print a;
\*   class a { }
\*   print a;
\*   var a;
\*   print a;
\*   { var c = 1; { var c = 2; print c; } print c; }
Prog_global_redeclare ==
    <<
    "v", "a", "r", " ", "a", " ", "=", " ", "1", ";", "\n", "p", "r", "i",
    "n", "t", " ", "a", ";", "\n", "v", "a", "r", " ", "a", " ", "=", " ",
    "2", ";", "\n", "p", "r", "i", "n", "t", " ", "a", ";", "\n", "f", "u",
    "n", " ", "a", "(", ")", " ", "{", " ", "}", "\n", "p", "r", "i", "n",
    "t", " ", "a", ";", "\n", "c", "l", "a", "s", "s", " ", "a", " ", "{",
    " ", "}", "\n", "p", "r", "i", "n", "t", " ", "a", ";", "\n", "v", "a",
    "r", " ", "a", ";", "\n", "p", "r", "i", "n", "t", " ", "a", ";", "\n",
    "{", " ", "v", "a", "r", " ", "c", " ", "=", " ", "1", ";", " ", "{", " ",
    "v", "a", "r", " ", "c", " ", "=", " ", "2", ";", " ", "p", "r", "i", "n",
    "t", " ", "c", ";", " ", "}", " ", "p", "r", "i", "n", "t", " ", "c", ";",
    " ", "}", "\n"
    >>

\*   fun never() {
\*   for (;;) print 0;
\*   for (;; i = i + 1) print 1;
\*   for (; i < 1;) print 2;
\*   for (; i < 1; i = i + 1) print 3;
\*   for (var j = 0;;) print 4;
\*   for (var j = 0;; j = j + 1) print 5;
\*   for (var j = 0; j < 1;) print 6;
\*   for (i = 0; i < 1; i = i + 1) print 7;
\*   }
\*   var i = 0;
\*   var k = "g";
\*   for (var k = 0; k < 2; k = k + 1) { print k; }
\*   for (; i < 2; i = i + 1) print i;
\*   print k;
\*   print i;
Prog_for_clauses ==
    <<
    "f", "u", "n", " ", "n", "e", "v", "e", "r", "(", ")", " ", "{", "\n",
    "f", "o", "r", " ", "(", ";", ";", ")", " ", "p", "r", "i", "n", "t", " ",
    "0", ";", "\n", "f", "o", "r", " ", "(", ";", ";", " ", "i", " ", "=",
    " ", "i", " ", "+", " ", "1", ")", " ", "p", "r", "i", "n", "t", " ", "1",
    ";", "\n", "f", "o", "r", " ", "(", ";", " ", "i", " ", "<", " ", "1",
    ";", ")", " ", "p", "r", "i", "n", "t", " ", "2", ";", "\n", "f", "o",
    "r", " ", "(", ";", " ", "i", " ", "<", " ", "1", ";", " ", "i", " ", "=",
    " ", "i", " ", "+", " ", "1", ")", " ", "p", "r", "i", "n", "t", " ", "3",
    ";", "\n", "f", "o", "r", " ", "(", "v", "a", "r", " ", "j", " ", "=",
    " ", "0", ";", ";", ")", " ", "p", "r", "i", "n", "t", " ", "4", ";",
    "\n", "f", "o", "r", " ", "(", "v", "a", "r", " ", "j", " ", "=", " ",
    "0", ";", ";", " ", "j", " ", "=", " ", "j", " ", "+", " ", "1", ")", " ",
    "p", "r", "i", "n", "t", " ", "5", ";", "\n", "f", "o", "r", " ", "(",
    "v", "a", "r", " ", "j", " ", "=", " ", "0", ";", " ", "j", " ", "<", " ",
    "1", ";", ")", " ", "p", "r", "i", "n", "t", " ", "6", ";", "\n", "f",
    "o", "r", " ", "(", "i", " ", "=", " ", "0", ";", " ", "i", " ", "<", " ",
    "1", ";", " ", "i", " ", "=", " ", "i", " ", "+", " ", "1", ")", " ", "p",
    "r", "i", "n", "t", " ", "7", ";", "\n", "}", "\n", "v", "a", "r", " ",
    "i", " ", "=", " ", "0", ";", "\n", "v", "a", "r", " ", "k", " ", "=",
    " ", "\"", "g", "\"", ";", "\n", "f", "o", "r", " ", "(", "v", "a", "r",
    " ", "k", " ", "=", " ", "0", ";", " ", "k", " ", "<", " ", "2", ";", " ",
    "k", " ", "=", " ", "k", " ", "+", " ", "1", ")", " ", "{", " ", "p", "r",
    "i", "n", "t", " ", "k", ";", " ", "}", "\n", "f", "o", "r", " ", "(",
    ";", " ", "i", " ", "<", " ", "2", ";", " ", "i", " ", "=", " ", "i", " ",
    "+", " ", "1", ")", " ", "p", "r", "i", "n", "t", " ", "i", ";", "\n",
    "p", "r", "i", "n", "t", " ", "k", ";", "\n", "p", "r", "i", "n", "t",
    " ", "i", ";", "\n"
    >>

\*   var a; var b;
\*   a = b = 3;
\*   print a;
\*   1 = 2;
\*   a.x = 4;
\*   (a) = 5;
\*   a + b = 6 + 1;
\*   print 7;
Prog_assign_targets ==
    <<
    "v", "a", "r", " ", "a", ";", " ", "v", "a", "r", " ", "b", ";", "\n",
    "a", " ", "=", " ", "b", " ", "=", " ", "3", ";", "\n", "p", "r", "i",
    "n", "t", " ", "a", ";", "\n", "1", " ", "=", " ", "2", ";", "\n", "a",
    ".", "x", " ", "=", " ", "4", ";", "\n", "(", "a", ")", " ", "=", " ",
    "5", ";", "\n", "a", " ", "+", " ", "b", " ", "=", " ", "6", " ", "+",
    " ", "1", ";", "\n", "p", "r", "i", "n", "t", " ", "7", ";", "\n"
    >>

\*   1 2 3; 4;
\*   ( ; 5;
\*   { 6 7 } 8; }
\*   if (1 2) print 9; else print 10;
\*   +
Prog_synchronize ==
    <<
    "1", " ", "2", " ", "3", ";", " ", "4", ";", "\n", "(", " ", ";", " ",
    "5", ";", "\n", "{", " ", "6", " ", "7", " ", "}", " ", "8", ";", " ",
    "}", "\n", "i", "f", " ", "(", "1", " ", "2", ")", " ", "p", "r", "i",
    "n", "t", " ", "9", ";", " ", "e", "l", "s", "e", " ", "p", "r", "i", "n",
    "t", " ", "1", "0", ";", "\n", "+"
    >>

\*   class A { speak() { print "A"; } set(v) { this.v = v; } }
\*   class B < A {
\*   speak() { super.speak(); print "B"; }
\*   set(v) { fun inner() { super.set(v); } inner(); print this.v; }
\*   miss() { super.nothing(); }
\*   }
\*   var b = B();
\*   b.speak();
\*   b.set(3);
\*   print b.v;
\*   b.miss();
\*   print "after";
Prog_super_fields ==
    <<
    "c", "l", "a", "s", "s", " ", "A", " ", "{", " ", "s", "p", "e", "a", "k",
    "(", ")", " ", "{", " ", "p", "r", "i", "n", "t", " ", "\"", "A", "\"",
    ";", " ", "}", " ", "s", "e", "t", "(", "v", ")", " ", "{", " ", "t", "h",
    "i", "s", ".", "v", " ", "=", " ", "v", ";", " ", "}", " ", "}", "\n",
    "c", "l", "a", "s", "s", " ", "B", " ", "<", " ", "A", " ", "{", "\n",
    "s", "p", "e", "a", "k", "(", ")", " ", "{", " ", "s", "u", "p", "e", "r",
    ".", "s", "p", "e", "a", "k", "(", ")", ";", " ", "p", "r", "i", "n", "t",
    " ", "\"", "B", "\"", ";", " ", "}", "\n", "s", "e", "t", "(", "v", ")",
    " ", "{", " ", "f", "u", "n", " ", "i", "n", "n", "e", "r", "(", ")", " ",
    "{", " ", "s", "u", "p", "e", "r", ".", "s", "e", "t", "(", "v", ")", ";",
    " ", "}", " ", "i", "n", "n", "e", "r", "(", ")", ";", " ", "p", "r", "i",
    "n", "t", " ", "t", "h", "i", "s", ".", "v", ";", " ", "}", "\n", "m",
    "i", "s", "s", "(", ")", " ", "{", " ", "s", "u", "p", "e", "r", ".", "n",
    "o", "t", "h", "i", "n", "g", "(", ")", ";", " ", "}", "\n", "}", "\n",
    "v", "a", "r", " ", "b", " ", "=", " ", "B", "(", ")", ";", "\n", "b",
    ".", "s", "p", "e", "a", "k", "(", ")", ";", "\n", "b", ".", "s", "e",
    "t", "(", "3", ")", ";", "\n", "p", "r", "i", "n", "t", " ", "b", ".",
    "v", ";", "\n", "b", ".", "m", "i", "s", "s", "(", ")", ";", "\n", "p",
    "r", "i", "n", "t", " ", "\"", "a", "f", "t", "e", "r", "\"", ";", "\n"
    >>

\*   print this;
\*   fun f() { return this; }
\*   class A { m() { fun g() { return this; } return super.m; } }
\*   class B < A {
\*   m() { fun g() { super.m(); return this; }
\*   class C { n() { super.n(); return this; } }
\*   super.m();
\*   return this; }
\*   init() { this.x = 1; }
\*   }
\*   super.m();
\*   print this;
\*   fun h() { super.m(); }
Prog_this_super ==
    <<
    "p", "r", "i", "n", "t", " ", "t", "h", "i", "s", ";", "\n", "f", "u",
    "n", " ", "f", "(", ")", " ", "{", " ", "r", "e", "t", "u", "r", "n", " ",
    "t", "h", "i", "s", ";", " ", "}", "\n", "c", "l", "a", "s", "s", " ",
    "A", " ", "{", " ", "m", "(", ")", " ", "{", " ", "f", "u", "n", " ", "g",
    "(", ")", " ", "{", " ", "r", "e", "t", "u", "r", "n", " ", "t", "h", "i",
    "s", ";", " ", "}", " ", "r", "e", "t", "u", "r", "n", " ", "s", "u", "p",
    "e", "r", ".", "m", ";", " ", "}", " ", "}", "\n", "c", "l", "a", "s",
    "s", " ", "B", " ", "<", " ", "A", " ", "{", "\n", "m", "(", ")", " ",
    "{", " ", "f", "u", "n", " ", "g", "(", ")", " ", "{", " ", "s", "u", "p",
    "e", "r", ".", "m", "(", ")", ";", " ", "r", "e", "t", "u", "r", "n", " ",
    "t", "h", "i", "s", ";", " ", "}", "\n", "c", "l", "a", "s", "s", " ",
    "C", " ", "{", " ", "n", "(", ")", " ", "{", " ", "s", "u", "p", "e", "r",
    ".", "n", "(", ")", ";", " ", "r", "e", "t", "u", "r", "n", " ", "t", "h",
    "i", "s", ";", " ", "}", " ", "}", "\n", "s", "u", "p", "e", "r", ".",
    "m", "(", ")", ";", "\n", "r", "e", "t", "u", "r", "n", " ", "t", "h",
    "i", "s", ";", " ", "}", "\n", "i", "n", "i", "t", "(", ")", " ", "{",
    " ", "t", "h", "i", "s", ".", "x", " ", "=", " ", "1", ";", " ", "}",
    "\n", "}", "\n", "s", "u", "p", "e", "r", ".", "m", "(", ")", ";", "\n",
    "p", "r", "i", "n", "t", " ", "t", "h", "i", "s", ";", "\n", "f", "u",
    "n", " ", "h", "(", ")", " ", "{", " ", "s", "u", "p", "e", "r", ".", "m",
    "(", ")", ";", " ", "}", "\n"
    >>

\*   fun p(x) { print x; return x; }
\*   print nil or p("r1");
\*   print false or p(0);
\*   print 0 or p("no");
\*   print "" or p("no");
\*   print nil and p("no");
\*   print false and p("no");
\*   print 0 and p("r2");
\*   print "" and p(nil);
\*   print 1 and 2 or p("no");
\*   print true and false;
\*   print p or p("no");
Prog_logical ==
    <<
    "f", "u", "n", " ", "p", "(", "x", ")", " ", "{", " ", "p", "r", "i", "n",
    "t", " ", "x", ";", " ", "r", "e", "t", "u", "r", "n", " ", "x", ";", " ",
    "}", "\n", "p", "r", "i", "n", "t", " ", "n", "i", "l", " ", "o", "r",
    " ", "p", "(", "\"", "r", "1", "\"", ")", ";", "\n", "p", "r", "i", "n",
    "t", " ", "f", "a", "l", "s", "e", " ", "o", "r", " ", "p", "(", "0", ")",
    ";", "\n", "p", "r", "i", "n", "t", " ", "0", " ", "o", "r", " ", "p",
    "(", "\"", "n", "o", "\"", ")", ";", "\n", "p", "r", "i", "n", "t", " ",
    "\"", "\"", " ", "o", "r", " ", "p", "(", "\"", "n", "o", "\"", ")", ";",
    "\n", "p", "r", "i", "n", "t", " ", "n", "i", "l", " ", "a", "n", "d",
    " ", "p", "(", "\"", "n", "o", "\"", ")", ";", "\n", "p", "r", "i", "n",
    "t", " ", "f", "a", "l", "s", "e", " ", "a", "n", "d", " ", "p", "(",
    "\"", "n", "o", "\"", ")", ";", "\n", "p", "r", "i", "n", "t", " ", "0",
    " ", "a", "n", "d", " ", "p", "(", "\"", "r", "2", "\"", ")", ";", "\n",
    "p", "r", "i", "n", "t", " ", "\"", "\"", " ", "a", "n", "d", " ", "p",
    "(", "n", "i", "l", ")", ";", "\n", "p", "r", "i", "n", "t", " ", "1",
    " ", "a", "n", "d", " ", "2", " ", "o", "r", " ", "p", "(", "\"", "n",
    "o", "\"", ")", ";", "\n", "p", "r", "i", "n", "t", " ", "t", "r", "u",
    "e", " ", "a", "n", "d", " ", "f", "a", "l", "s", "e", ";", "\n", "p",
    "r", "i", "n", "t", " ", "p", " ", "o", "r", " ", "p", "(", "\"", "n",
    "o", "\"", ")", ";", "\n"
    >>

\*   fun p(x) { print x; return x; }
\*   print 1 == 1;
\*   print 1 != 1;
\*   print 1 < 2;
\*   print p(nil) == p(nil);
Prog_equal_nil ==
    <<
    "f", "u", "n", " ", "p", "(", "x", ")", " ", "{", " ", "p", "r", "i", "n",
    "t", " ", "x", ";", " ", "r", "e", "t", "u", "r", "n", " ", "x", ";", " ",
    "}", "\n", "p", "r", "i", "n", "t", " ", "1", " ", "=", "=", " ", "1",
    ";", "\n", "p", "r", "i", "n", "t", " ", "1", " ", "!", "=", " ", "1",
    ";", "\n", "p", "r", "i", "n", "t", " ", "1", " ", "<", " ", "2", ";",
    "\n", "p", "r", "i", "n", "t", " ", "p", "(", "n", "i", "l", ")", " ",
    "=", "=", " ", "p", "(", "n", "i", "l", ")", ";", "\n"
    >>

\*   print true == true;
Prog_equal_bool ==
    <<
    "p", "r", "i", "n", "t", " ", "t", "r", "u", "e", " ", "=", "=", " ", "t",
    "r", "u", "e", ";", "\n"
    >>

\*   print "a" == "a";
Prog_equal_str ==
    <<
    "p", "r", "i", "n", "t", " ", "\"", "a", "\"", " ", "=", "=", " ", "\"",
    "a", "\"", ";", "\n"
    >>

\*   print 1 == "1";
Prog_equal_mixed ==
    <<
    "p", "r", "i", "n", "t", " ", "1", " ", "=", "=", " ", "\"", "1", "\"",
    ";", "\n"
    >>

\*   print nil != 1;
Prog_not_equal_nil ==
    <<
    "p", "r", "i", "n", "t", " ", "n", "i", "l", " ", "!", "=", " ", "1", ";",
    "\n"
    >>

\*   fun p(x) { print x; return x; }
\*   print 3 - 1;
\*   print p(true) - p(1);
Prog_minus_bool ==
    <<
    "f", "u", "n", " ", "p", "(", "x", ")", " ", "{", " ", "p", "r", "i", "n",
    "t", " ", "x", ";", " ", "r", "e", "t", "u", "r", "n", " ", "x", ";", " ",
    "}", "\n", "p", "r", "i", "n", "t", " ", "3", " ", "-", " ", "1", ";",
    "\n", "p", "r", "i", "n", "t", " ", "p", "(", "t", "r", "u", "e", ")",
    " ", "-", " ", "p", "(", "1", ")", ";", "\n"
    >>

\*   print 2 * 3;
\*   print "a" * 2;
Prog_star_str ==
    <<
    "p", "r", "i", "n", "t", " ", "2", " ", "*", " ", "3", ";", "\n", "p",
    "r", "i", "n", "t", " ", "\"", "a", "\"", " ", "*", " ", "2", ";", "\n"
    >>

\*   print 6 / 3;
\*   print 1 / nil;
Prog_slash_nil ==
    <<
    "p", "r", "i", "n", "t", " ", "6", " ", "/", " ", "3", ";", "\n", "p",
    "r", "i", "n", "t", " ", "1", " ", "/", " ", "n", "i", "l", ";", "\n"
    >>

\*   print "a" < "b";
Prog_less_str ==
    <<
    "p", "r", "i", "n", "t", " ", "\"", "a", "\"", " ", "<", " ", "\"", "b",
    "\"", ";", "\n"
    >>

\*   print 1 <= 1;
\*   print 1 <= nil;
Prog_less_equal_nil ==
    <<
    "p", "r", "i", "n", "t", " ", "1", " ", "<", "=", " ", "1", ";", "\n",
    "p", "r", "i", "n", "t", " ", "1", " ", "<", "=", " ", "n", "i", "l", ";",
    "\n"
    >>

\*   print 2 > 1;
\*   print true > false;
Prog_greater_bool ==
    <<
    "p", "r", "i", "n", "t", " ", "2", " ", ">", " ", "1", ";", "\n", "p",
    "r", "i", "n", "t", " ", "t", "r", "u", "e", " ", ">", " ", "f", "a", "l",
    "s", "e", ";", "\n"
    >>

\*   print 1 >= 2;
\*   print "b" >= 1;
Prog_greater_equal_str ==
    <<
    "p", "r", "i", "n", "t", " ", "1", " ", ">", "=", " ", "2", ";", "\n",
    "p", "r", "i", "n", "t", " ", "\"", "b", "\"", " ", ">", "=", " ", "1",
    ";", "\n"
    >>

\*   class A { m() { return "A"; } }
\*   class B < A { init() { this.x = 1; } m() { return super.m(); } }
\*   {
\*     var k = 1;
\*     class C { m() { return k; } }
\*     class D < C { m() { return super.m(); } n() { return 2; } }
\*     print D().m();
\*     print k;
\*   }
\*   fun f() { class E < B {} return E; }
\*   print f();
\*   print B().m();
Prog_class_env ==
    <<
    "c", "l", "a", "s", "s", " ", "A", " ", "{", " ", "m", "(", ")", " ", "{",
    " ", "r", "e", "t", "u", "r", "n", " ", "\"", "A", "\"", ";", " ", "}",
    " ", "}", "\n", "c", "l", "a", "s", "s", " ", "B", " ", "<", " ", "A",
    " ", "{", " ", "i", "n", "i", "t", "(", ")", " ", "{", " ", "t", "h", "i",
    "s", ".", "x", " ", "=", " ", "1", ";", " ", "}", " ", "m", "(", ")", " ",
    "{", " ", "r", "e", "t", "u", "r", "n", " ", "s", "u", "p", "e", "r", ".",
    "m", "(", ")", ";", " ", "}", " ", "}", "\n", "{", "\n", " ", " ", "v",
    "a", "r", " ", "k", " ", "=", " ", "1", ";", "\n", " ", " ", "c", "l",
    "a", "s", "s", " ", "C", " ", "{", " ", "m", "(", ")", " ", "{", " ", "r",
    "e", "t", "u", "r", "n", " ", "k", ";", " ", "}", " ", "}", "\n", " ",
    " ", "c", "l", "a", "s", "s", " ", "D", " ", "<", " ", "C", " ", "{", " ",
    "m", "(", ")", " ", "{", " ", "r", "e", "t", "u", "r", "n", " ", "s", "u",
    "p", "e", "r", ".", "m", "(", ")", ";", " ", "}", " ", "n", "(", ")", " ",
    "{", " ", "r", "e", "t", "u", "r", "n", " ", "2", ";", " ", "}", " ", "}",
    "\n", " ", " ", "p", "r", "i", "n", "t", " ", "D", "(", ")", ".", "m",
    "(", ")", ";", "\n", " ", " ", "p", "r", "i", "n", "t", " ", "k", ";",
    "\n", "}", "\n", "f", "u", "n", " ", "f", "(", ")", " ", "{", " ", "c",
    "l", "a", "s", "s", " ", "E", " ", "<", " ", "B", " ", "{", "}", " ", "r",
    "e", "t", "u", "r", "n", " ", "E", ";", " ", "}", "\n", "p", "r", "i",
    "n", "t", " ", "f", "(", ")", ";", "\n", "p", "r", "i", "n", "t", " ",
    "B", "(", ")", ".", "m", "(", ")", ";", "\n"
    >>

\*   var x = 1;
\*   var B = "b";
\*   print B;
\*   class B < x { m() {} }
\*   print B;
Prog_superclass_number ==
    <<
    "v", "a", "r", " ", "x", " ", "=", " ", "1", ";", "\n", "v", "a", "r",
    " ", "B", " ", "=", " ", "\"", "b", "\"", ";", "\n", "p", "r", "i", "n",
    "t", " ", "B", ";", "\n", "c", "l", "a", "s", "s", " ", "B", " ", "<",
    " ", "x", " ", "{", " ", "m", "(", ")", " ", "{", "}", " ", "}", "\n",
    "p", "r", "i", "n", "t", " ", "B", ";", "\n"
    >>

\*   fun f(y) {
\*     var z = 1;
\*     class E < y { m() {} }
\*     print E;
\*   }
\*   print "call";
\*   f(nil);
Prog_superclass_local ==
    <<
    "f", "u", "n", " ", "f", "(", "y", ")", " ", "{", "\n", " ", " ", "v",
    "a", "r", " ", "z", " ", "=", " ", "1", ";", "\n", " ", " ", "c", "l",
    "a", "s", "s", " ", "E", " ", "<", " ", "y", " ", "{", " ", "m", "(", ")",
    " ", "{", "}", " ", "}", "\n", " ", " ", "p", "r", "i", "n", "t", " ",
    "E", ";", "\n", "}", "\n", "p", "r", "i", "n", "t", " ", "\"", "c", "a",
    "l", "l", "\"", ";", "\n", "f", "(", "n", "i", "l", ")", ";", "\n"
    >>

\*   print "a";
Snip_print ==
    <<
    "p", "r", "i", "n", "t", " ", "\"", "a", "\"", ";", "\n"
    >>

\*   1 / 0;
Snip_div ==
    <<
    "1", " ", "/", " ", "0", ";", "\n"
    >>

\*   print ;
Snip_parse_error ==
    <<
    "p", "r", "i", "n", "t", " ", ";", "\n"
    >>

\*   var x = 1; { var x = 2; print x; }
Snip_block ==
    <<
    "v", "a", "r", " ", "x", " ", "=", " ", "1", ";", " ", "{", " ", "v", "a",
    "r", " ", "x", " ", "=", " ", "2", ";", " ", "p", "r", "i", "n", "t", " ",
    "x", ";", " ", "}", "\n"
    >>

\*   fun f() { return; } print f();
Snip_return ==
    <<
    "f", "u", "n", " ", "f", "(", ")", " ", "{", " ", "r", "e", "t", "u", "r",
    "n", ";", " ", "}", " ", "p", "r", "i", "n", "t", " ", "f", "(", ")", ";",
    "\n"
    >>

\*   x = clock();
Snip_assign_call ==
    <<
    "x", " ", "=", " ", "c", "l", "o", "c", "k", "(", ")", ";", "\n"
    >>

\*   return;
Snip_top_return ==
    <<
    "r", "e", "t", "u", "r", "n", ";", "\n"
    >>

Programs ==
    {Prog_closure,
     Prog_unwind,
     Prog_error_unwind,
     Prog_runtime_error,
     Prog_inherit,
     Prog_inherit_init,
     Prog_clock,
     Prog_init,
     Prog_scopes,
     Prog_returns,
     Prog_init_error,
     Prog_super,
     Prog_this,
     Prog_parse_error,
     Prog_scan_error,
     Prog_resolve_error,
     Prog_self_init,
     Prog_assign_call,
     Prog_local_assign_call,
     Prog_while,
     Prog_fib,
     Prog_counter,
     Prog_nested_return,
     Prog_undefined,
     Prog_empty,
     Prog_scan_lines,
     Prog_unterminated_string,
     Prog_unterminated_comment,
     Prog_superscript,
     Prog_recovery,
     Prog_call_not_callable,
     Prog_call_arity,
     Prog_local_redeclare,
     Prog_global_redeclare,
     Prog_for_clauses,
     Prog_assign_targets,
     Prog_synchronize,
     Prog_super_fields,
     Prog_this_super,
     Prog_logical,
     Prog_equal_nil,
     Prog_equal_bool,
     Prog_equal_str,
     Prog_equal_mixed,
     Prog_not_equal_nil,
     Prog_minus_bool,
     Prog_star_str,
     Prog_slash_nil,
     Prog_less_str,
     Prog_less_equal_nil,
     Prog_greater_bool,
     Prog_greater_equal_str,
     Prog_class_env,
     Prog_superclass_number,
     Prog_superclass_local}

Snippets ==
    {Snip_print,
     Snip_div,
     Snip_parse_error,
     Snip_block,
     Snip_return,
     Snip_assign_call,
     Snip_top_return}

\* the files made of at most MaxSnippets snippets
MaxSnippets == 2

RECURSIVE SnippetFiles(_)
SnippetFiles(n) ==
    IF n = 0 THEN {<<>>}
    ELSE SnippetFiles(n - 1)
         \cup {f \o x : f \in SnippetFiles(n - 1), x \in Snippets}

Sources == Programs \cup SnippetFiles(MaxSnippets)

\* len(sys.argv) is at most MaxArgc; 2 is the run of a script
MaxArgc == 3

-----------------------------------------------------------------------------
(* lox.py.  pc is the position in main, _run_file, _run_prompt and _run     *)
(* ("returned" when _run has returned to its caller); flow is the history   *)
(* of the steps taken; exit_code is the exit status of the process (-1      *)
(* while it runs) and crash the class of the host exception that ended it   *)
(* ("" when none).  stdout holds the text of every print call so far.       *)

Diagnostics == [had_error |-> had_error, stdout |-> stdout]

Init ==
    /\ argc \in 2..MaxArgc
    /\ stdin = <<>>
    /\ source \in (IF argc = 2 THEN Sources ELSE {<<>>})
    /\ pc = "main"
    /\ tokens = <<>>
    /\ statements = <<>>
    /\ parser = None
    /\ resolver = None
    /\ had_error = FALSE
    /\ had_runtime_error = FALSE
    /\ interp = Interpreter
    /\ stdout = <<>>
    /\ next_stmt = 1
    /\ exit_code = 0 - 1
    /\ crash = ""
    /\ flow = <<>>

\* main()
Main ==
    /\ pc = "main"
    /\ flow' = Append(flow, "main")
    /\ IF argc > 2
       THEN /\ stdout' = Append(stdout, "Usage: lox [script]")
            /\ exit_code' = 64
            /\ pc' = "exited"
       ELSE /\ pc' = IF argc = 2 THEN "scan" ELSE "prompt"
            /\ UNCHANGED <<stdout, exit_code>>
    /\ UNCHANGED <<argc, stdin, resolver, source, parser, tokens, statements, had_error,
                   had_runtime_error, interp, next_stmt, crash>>

\* the number of Token objects made so far: the scanners number them, and
\* every scan ends by making the EOF token
TokensMade == IF tokens = <<>> THEN 0 ELSE tokens[Len(tokens)].id

\* _run: scanner.scan_tokens(); a host exception ends the process
Scan ==
    /\ pc = "scan"
    /\ \E sc \in {Scanner_scan_tokens(Scanner(source, Diagnostics, TokensMade))} :
        /\ tokens' = IF sc.exc # "" THEN <<>> ELSE sc.tokens
        /\ had_error' = sc.had_error
        /\ stdout' = sc.stdout
        /\ crash' = sc.exc
        /\ exit_code' = IF sc.exc # "" THEN 1 ELSE exit_code
        /\ pc' = IF sc.exc # "" THEN "exited" ELSE "parse"
    /\ flow' = Append(flow, "scan")
    /\ UNCHANGED <<argc, stdin, resolver, source, parser, statements, had_runtime_error, interp,
                   next_stmt>>

\* a variant of Parse for the sensitivity of C6: _run without the first test
\* of common.had_error
Parse_ungated ==
    /\ pc = "parse"
    /\ \E r \in {Parser_parse(Parser(tokens, Diagnostics))} :
        /\ statements' = r.v
        /\ parser' = r.p
        /\ had_error' = r.p.had_error
        /\ stdout' = r.p.stdout
    /\ pc' = "resolve"
    /\ flow' = Append(flow, "parse")
    /\ UNCHANGED <<argc, stdin, resolver, source, tokens, had_runtime_error, interp, next_stmt,
                   exit_code, crash>>

\* _run: parser.parse() and the first test of common.had_error; an
\* exception that leaves parse ends the process
Parse ==
    /\ pc = "parse"
    /\ \E r \in {Parser_parse(Parser(tokens, Diagnostics))} :
        /\ statements' = IF r.k = "ok" THEN r.v ELSE <<>>
        /\ parser' = r.p
        /\ had_error' = r.p.had_error
        /\ stdout' = r.p.stdout
        /\ crash' = IF r.k = "ok" THEN crash ELSE r.k
        /\ exit_code' = IF r.k = "ok" THEN exit_code ELSE 1
        /\ pc' = IF r.k # "ok" THEN "exited"
                 ELSE IF r.p.had_error THEN "returned" ELSE "resolve"
    /\ flow' = Append(flow, "parse")
    /\ UNCHANGED <<argc, stdin, resolver, source, tokens, had_runtime_error, interp, next_stmt>>

\* _run: resolver.resolve(statements) and the second test of
\* common.had_error; a host exception ends the process
Resolve ==
    /\ pc = "resolve"
    /\ \E r \in {Resolver_resolve(Resolver(interp.locals, Diagnostics),
                                  statements)} :
        /\ interp' = [interp EXCEPT !.locals = r.locals]
        /\ resolver' = r
        /\ had_error' = r.had_error
        /\ stdout' = r.stdout
        /\ crash' = r.exc
        /\ exit_code' = IF r.exc # "" THEN 1 ELSE exit_code
        /\ pc' = IF r.exc # "" THEN "exited"
                 ELSE IF r.had_error THEN "returned" ELSE "interpret"
    /\ flow' = Append(flow, "resolve")
    /\ UNCHANGED <<argc, stdin, source, parser, tokens, statements, had_runtime_error,
                   next_stmt>>

\* common.runtime_error(err)
runtime_error(out, err) ==
    Append(out, err.msg \o "\n[line " \o NatToStr(err.token.line) \o "]")

\* a variant of InterpretStmt for the sensitivity of C7: the try statement
\* inside the loop, so that the loop goes on after the report
InterpretStmt_continues ==
    /\ pc = "interpret"
    /\ next_stmt <= Len(statements)
    /\ statements[next_stmt] # None
    /\ \E r \in {Interpreter_execute([interp EXCEPT !.stdout = stdout],
                                     statements[next_stmt])} :
        /\ r.k \in {"ok", "LoxRuntimeError"}
        /\ interp' = r.st
        /\ stdout' = IF r.k = "ok" THEN r.st.stdout
                     ELSE runtime_error(r.st.stdout, r)
        /\ had_runtime_error' = (had_runtime_error \/ r.k # "ok")
        /\ next_stmt' = next_stmt + 1
    /\ flow' = Append(flow, "interpret")
    /\ UNCHANGED <<argc, stdin, resolver, source, parser, tokens, statements, had_error, pc, exit_code,
                   crash>>

\* interpret(statements): one turn of the loop.  LoxRuntimeError is caught
\* and reported; any other exception ends the process
InterpretStmt ==
    /\ pc = "interpret"
    /\ next_stmt <= Len(statements)
    /\ \E r \in {IF statements[next_stmt] = None
                 THEN IHost(interp, "AssertionError")
                 ELSE Interpreter_execute([interp EXCEPT !.stdout = stdout],
                                          statements[next_stmt])} :
        /\ interp' = r.st
        /\ CASE r.k = "ok" ->
                  /\ stdout' = r.st.stdout
                  /\ next_stmt' = next_stmt + 1
                  /\ UNCHANGED <<pc, had_runtime_error, exit_code, crash>>
             [] r.k = "LoxRuntimeError" ->
                  /\ stdout' = runtime_error(r.st.stdout, r)
                  /\ had_runtime_error' = TRUE
                  /\ pc' = "returned"
                  /\ UNCHANGED <<next_stmt, exit_code, crash>>
             [] OTHER ->
                  /\ stdout' = r.st.stdout
                  /\ crash' = r.k
                  /\ exit_code' = 1
                  /\ pc' = "exited"
                  /\ UNCHANGED <<next_stmt, had_runtime_error>>
    /\ flow' = Append(flow, "interpret")
    /\ UNCHANGED <<argc, stdin, resolver, source, parser, tokens, statements, had_error>>

\* interpret(statements): the loop is over
InterpretReturn ==
    /\ pc = "interpret"
    /\ next_stmt > Len(statements)
    /\ pc' = "returned"
    /\ flow' = Append(flow, "done")
    /\ UNCHANGED <<argc, stdin, resolver, source, parser, tokens, statements, had_error,
                   had_runtime_error, interp, stdout, next_stmt, exit_code,
                   crash>>

\* _run_file after _run: the exit status
RunFileExit ==
    /\ pc = "returned"
    /\ argc = 2
    /\ exit_code' = IF had_error THEN 65
                    ELSE IF had_runtime_error THEN 70 ELSE 0
    /\ pc' = "exited"
    /\ flow' = Append(flow, "exit")
    /\ UNCHANGED <<argc, stdin, resolver, source, parser, tokens, statements, had_error,
                   had_runtime_error, interp, stdout, next_stmt, crash>>

\* the number of lines that _run_prompt has read
Reads == Cardinality({i \in DOMAIN flow : flow[i] = "prompt"})

\* _run_prompt: the prompt, a line read by input() and, unless the line is
\* empty, the call of _run; an empty line ends the loop and the process
ReadLine ==
    /\ pc = "prompt"
    /\ Reads < Len(stdin)
    /\ stdout' = Append(stdout, "> ")
    /\ flow' = Append(flow, "prompt")
    /\ IF stdin[Reads + 1] = <<>>
       THEN /\ pc' = "exited"
            /\ exit_code' = 0
            /\ UNCHANGED <<source, next_stmt>>
       ELSE /\ pc' = "scan"
            /\ source' = stdin[Reads + 1]
            /\ next_stmt' = 1
            /\ UNCHANGED exit_code
    /\ UNCHANGED <<argc, stdin, resolver, tokens, statements, parser, had_error,
                   had_runtime_error, interp, crash>>

\* _run_prompt: the prompt, and input() at the end of the input raises
\* EOFError, which nothing catches
ReadEndOfInput ==
    /\ pc = "prompt"
    /\ Reads = Len(stdin)
    /\ stdout' = Append(stdout, "> ")
    /\ flow' = Append(flow, "eof")
    /\ crash' = "EOFError"
    /\ exit_code' = 1
    /\ pc' = "exited"
    /\ UNCHANGED <<argc, stdin, resolver, source, tokens, statements, parser, had_error,
                   had_runtime_error, interp, next_stmt>>

\* a variant of RunPromptReset for the sensitivity of C14: no assignment to
\* common.had_error
RunPromptReset_keeps ==
    /\ pc = "returned"
    /\ argc = 1
    /\ pc' = "prompt"
    /\ flow' = Append(flow, "reset")
    /\ UNCHANGED <<argc, stdin, resolver, source, tokens, statements, parser, had_error,
                   had_runtime_error, interp, stdout, next_stmt, exit_code,
                   crash>>

\* _run_prompt after _run: common.had_error = False, and the loop goes on
RunPromptReset ==
    /\ pc = "returned"
    /\ argc = 1
    /\ had_error' = FALSE
    /\ pc' = "prompt"
    /\ flow' = Append(flow, "reset")
    /\ UNCHANGED <<argc, stdin, resolver, source, tokens, statements, parser,
                   had_runtime_error, interp, stdout, next_stmt, exit_code,
                   crash>>

Next ==
    \/ Main
    \/ Scan
    \/ Parse
    \/ Resolve
    \/ InterpretStmt
    \/ InterpretReturn
    \/ RunFileExit

Spec == Init /\ [][Next]_vars

\*   var a = 1;
Line_var == <<"v", "a", "r", " ", "a", " ", "=", " ", "1", ";">>

\*   print a;
Line_print == <<"p", "r", "i", "n", "t", " ", "a", ";">>

\*   print ;
Line_parse_error == <<"p", "r", "i", "n", "t", " ", ";">>

\*   return;
Line_resolve_error == <<"r", "e", "t", "u", "r", "n", ";">>

Lines == {Line_var, Line_print, Line_parse_error, Line_resolve_error}

\* the inputs of at most MaxLines lines, ended by an empty line or not
MaxLines == 4

RECURSIVE LineSeqs(_)
LineSeqs(n) ==
    IF n = 0 THEN {<<>>}
    ELSE LineSeqs(n - 1)
         \cup {Append(f, x) : f \in LineSeqs(n - 1), x \in Lines}

Inputs == LineSeqs(MaxLines) \cup {Append(f, <<>>) : f \in LineSeqs(MaxLines)}

\* the interactive prompt: lox.py run without an argument
ReplInit ==
    /\ argc = 1
    /\ stdin \in Inputs
    /\ source = <<>>
    /\ pc = "main"
    /\ tokens = <<>>
    /\ statements = <<>>
    /\ parser = None
    /\ resolver = None
    /\ had_error = FALSE
    /\ had_runtime_error = FALSE
    /\ interp = Interpreter
    /\ stdout = <<>>
    /\ next_stmt = 1
    /\ exit_code = 0 - 1
    /\ crash = ""
    /\ flow = <<>>

ReplNext ==
    \/ Main
    \/ ReadLine
    \/ ReadEndOfInput
    \/ Scan
    \/ Parse
    \/ Resolve
    \/ InterpretStmt
    \/ InterpretReturn
    \/ RunPromptReset

ReplSpec == ReplInit /\ [][ReplNext]_vars

-----------------------------------------------------------------------------
(* The properties.  Trace is the history of the interpreter: the events of  *)
(* the blocks, calls, class calls and variable accesses finished so far.    *)

Trace == interp.trace

Events(kind) == {i \in DOMAIN Trace : Trace[i].ev = kind}

\* C1: every block execution and every call of a user function leaves
\* self.environment as it found it, whether the body falls through, unwinds
\* with LoxReturn or unwinds with LoxRuntimeError, nested or not.
C1_EnvironmentRestored ==
    \A i \in Events("block") \cup Events("call") :
        /\ Trace[i].exit \in {"ok", "LoxReturn", "LoxRuntimeError"}
        /\ Trace[i].after = Trace[i].before

\* a run in which nested blocks and calls have ended on each of the three
\* exit paths
C1_Witness ==
    /\ \E i \in Events("block"), j \in Events("call") :
            /\ Trace[i].exit = "ok" /\ Trace[i].depth > 0
            /\ Trace[j].exit = "ok"
    /\ \E i \in Events("block"), j \in Events("call") :
            /\ Trace[i].exit = "LoxReturn" /\ Trace[i].depth > 0
            /\ Trace[j].exit = "LoxReturn" /\ Trace[j].depth > 0
    /\ \E i \in Events("block"), j \in Events("call") :
            /\ Trace[i].exit = "LoxRuntimeError" /\ Trace[i].depth > 0
            /\ Trace[j].exit = "LoxRuntimeError" /\ Trace[j].depth > 0
    /\ interp.environment = GlobalsEnv

C3_ClosureSeesDeclarationBinding ==
    /\ \A i, j \in Events("access") :
            ( /\ Trace[i].e = "Variable" /\ Trace[i].id = Trace[j].id
              /\ Trace[i].callee # 0 /\ Trace[i].callee = Trace[j].callee
              /\ Trace[i].cell <= Trace[i].callee
              /\ Trace[j].cell <= Trace[j].callee )
            => Trace[i].cell = Trace[j].cell
    /\ (source = Prog_closure /\ pc = "exited")
            => stdout = <<"global", "global">>

\* Prog_closure has run: the closure's environment binds a by the end, and
\* both reads of a inside showA went to the binding of the globals
C3_Witness ==
    /\ source = Prog_closure
    /\ pc = "exited"
    /\ stdout = <<"global", "global">>
    /\ \E i, j \in Events("access") :
            /\ i < j
            /\ Trace[i].id = Trace[j].id
            /\ Trace[i].name = "a"
            /\ Trace[i].callee = Trace[j].callee
            /\ "a" \in DOMAIN interp.envs[Trace[i].callee].values
            /\ Trace[i].cell = GlobalsEnv
            /\ Trace[j].cell = GlobalsEnv

\* the method lookup C4 states: the class's own method first, then the
\* superclass's lookup
RECURSIVE C4_ChainLookup(_, _)
C4_ChainLookup(klass, name) ==
    IF name \in DOMAIN klass.methods THEN klass.methods[name]
    ELSE IF klass.superclass # None
    THEN C4_ChainLookup(klass.superclass, name)
    ELSE None

\* the method names declared along the chain of klass
RECURSIVE C4_ChainNames(_)
C4_ChainNames(klass) ==
    DOMAIN klass.methods
    \cup (IF klass.superclass # None THEN C4_ChainNames(klass.superclass)
          ELSE {})

\* C4: find_method on a class returns the method of the first class of its
\* inheritance chain that declares the name.
C4_MethodLookupWalksChain ==
    \A env \in DOMAIN interp.envs :
        \A x \in DOMAIN interp.envs[env].values :
            \E klass \in {interp.envs[env].values[x]} :
            klass.t = "LoxClass" =>
                \A name \in C4_ChainNames(klass) :
                    LoxClass_find_method(klass, name)
                        = C4_ChainLookup(klass, name)

\* the call expression clock() of line 1
C5_ClockCall ==
    Call(Variable(Token("IDENTIFIER", "clock", None, 1, 1)),
         Token("RIGHT_PAREN", ")", None, 1, 3), <<>>)

\* C5: in the interpreter as constructed, clock() evaluates to a Number
\* without a runtime error.
C5_ClockCallable ==
    pc = "main" =>
        \E r \in {Interpreter_evaluate(interp, C5_ClockCall)} :
        r.k = "ok" /\ IsFloat(r.v)

\* whether a statement list holds the placeholder of a failed declaration
C6_HasPlaceholder == \E i \in DOMAIN statements : statements[i] = None

\* C6: once a diagnostic is reported, interpret is not entered: nothing is
\* printed by the program and the interpreter's environments stay as
\* constructed; the resolver and the interpreter are entered without a
\* diagnostic only, so never with a placeholder in the statement list.
C6_ErrorsSuppressExecution ==
    /\ had_error =>
            /\ \A i \in DOMAIN flow : flow[i] \notin {"interpret", "done"}
            /\ pc \notin {"resolve", "interpret"}
            /\ interp.envs = Interpreter.envs
            /\ interp.instances = <<>>
            /\ interp.stdout = <<>>
            /\ interp.trace = <<>>
            /\ ~had_runtime_error
    /\ C6_HasPlaceholder =>
            /\ had_error
            /\ \A i \in DOMAIN flow : flow[i] \notin {"resolve", "interpret"}

\* a parse error in a file that also holds print statements: the run is over
\* after the parser
C6_Witness ==
    /\ had_error
    /\ C6_HasPlaceholder
    /\ \E i \in DOMAIN statements :
            statements[i] # None /\ statements[i].s = "Print"
    /\ flow = <<"main", "scan", "parse", "exit">>
    /\ pc = "exited"
    /\ exit_code = 65

\* the number of turns of the loop of interpret
C7_Turns == Cardinality({i \in DOMAIN flow : flow[i] = "interpret"})

\* after a runtime error: the loop of interpret is left for good, at the
\* statement that raised, and the process is not ended by the error
C7_Stopped ==
    had_runtime_error =>
        /\ pc \in {"returned", "exited"}
        /\ crash = ""
        /\ next_stmt \in 1..Len(statements)
        /\ C7_Turns = next_stmt
        /\ \A i \in DOMAIN flow : flow[i] # "done"
        /\ (source = Prog_runtime_error /\ pc = "exited") =>
                stdout = <<"a", "Division by zero error.\n[line 2]">>

\* the turn of the loop in which a statement raises LoxRuntimeError: the
\* output of the statements so far is kept, the report msg, newline,
\* [line L] is added, had_runtime_error is set and interpret returns
C7_Reported ==
    ( /\ pc = "interpret"
      /\ next_stmt <= Len(statements)
      /\ statements[next_stmt] # None
      /\ Interpreter_execute([interp EXCEPT !.stdout = stdout],
                             statements[next_stmt]).k = "LoxRuntimeError" )
    => \E r \in {Interpreter_execute([interp EXCEPT !.stdout = stdout],
                                     statements[next_stmt])} :
          /\ had_runtime_error'
          /\ pc' = "returned"
          /\ next_stmt' = next_stmt
          /\ crash' = ""
          /\ Len(stdout') = Len(r.st.stdout) + 1
          /\ SubSeq(stdout', 1, Len(stdout)) = stdout
          /\ stdout'[Len(stdout')] =
                r.msg \o "\n[line " \o NatToStr(r.token.line) \o "]"
          /\ interp'.envs = r.st.envs

\* C7: a runtime error of a top-level statement is caught by interpret,
\* reported as the message followed by [line L], sets had_runtime_error and
\* ends the loop: the statements before it have run, none after it does.
C7_RuntimeErrorStopsInterpret == [][C7_Reported]_vars /\ []C7_Stopped

\* a runtime error in the middle of a file: statements before and after
C7_Witness ==
    /\ had_runtime_error
    /\ pc = "exited"
    /\ exit_code = 70
    /\ next_stmt > 1
    /\ next_stmt < Len(statements)
    /\ Len(stdout) > 1

\* the instance a bound method's closure binds this to
C8_This(e) == interp.envs[e.closure].values["this"]

\* C8 as stated: every LoxReturn is caught by the call of the innermost
\* enclosing function, whose result is the carried value (nil for a bare
\* return), and never reaches interpret.
C8_ReturnDeliversCarriedValue ==
    /\ crash # "LoxReturn"
    /\ \A i \in Events("call") :
            /\ Trace[i].k # "LoxReturn"
            /\ Trace[i].exit = "LoxReturn" =>
                    Trace[i].k = "ok" /\ Trace[i].result = Trace[i].carried

\* C8, amended: every LoxReturn is caught by the call of the innermost
\* enclosing function and never reaches interpret; the result of the call
\* is the carried value (nil for a bare return), except in an initializer,
\* where it is the instance the initializer is bound to.
C8_ReturnCaughtByCall ==
    /\ crash # "LoxReturn"
    /\ \A i \in Events("call") :
            /\ Trace[i].k # "LoxReturn"
            /\ Trace[i].exit = "LoxReturn" =>
                    /\ Trace[i].k = "ok"
                    /\ Trace[i].result =
                            IF Trace[i].is_initializer THEN C8_This(Trace[i])
                            ELSE Trace[i].carried

\* a run with a return of a value, a bare return, a bare return in an
\* initializer, a return from inside a block and a return in a nested call
C8_Witness ==
    /\ \E i \in Events("call") :
            /\ Trace[i].exit = "LoxReturn" /\ ~Trace[i].is_initializer
            /\ Trace[i].carried # None /\ Trace[i].result = Trace[i].carried
    /\ \E i \in Events("call") :
            /\ Trace[i].exit = "LoxReturn" /\ ~Trace[i].is_initializer
            /\ Trace[i].carried = None /\ Trace[i].result = None
    /\ \E i \in Events("call") :
            /\ Trace[i].exit = "LoxReturn" /\ Trace[i].is_initializer
            /\ Trace[i].result.t = "LoxInstance"
    /\ \E i \in Events("block") :
            Trace[i].exit = "LoxReturn" /\ Trace[i].depth > 1
    /\ \E i \in Events("call") :
            Trace[i].exit = "LoxReturn" /\ Trace[i].depth > 0
    /\ pc = "exited"
    /\ crash = ""

\* C9: a call of a method named init that returns, returns the instance the
\* method is bound to, whether the class call or obj.init(...) makes it and
\* whether the body ends with return; or falls through; a class call that
\* returns, returns the instance it has just made.
C9_InitReturnsInstance ==
    /\ \A i \in Events("call") :
            ( /\ Trace[i].name = "init"
              /\ "this" \in DOMAIN interp.envs[Trace[i].closure].values
              /\ Trace[i].exit \in {"ok", "LoxReturn"} )
            => /\ Trace[i].k = "ok"
               /\ Trace[i].result = C8_This(Trace[i])
               /\ Trace[i].result.t = "LoxInstance"
    /\ \A i \in Events("new") :
            Trace[i].k = "ok" =>
                Trace[i].result = LoxInstanceRef(Trace[i].instances + 1)

\* whether the call of event i was made by LoxClass.call
C9_ByClassCall(i) == i < Len(Trace) /\ Trace[i + 1].ev = "new"

\* a run with init called by the class call and as obj.init(), ending with
\* return; and falling through
C9_Witness ==
    /\ \E i \in Events("call") :
            /\ Trace[i].name = "init" /\ Trace[i].exit = "LoxReturn"
            /\ C9_ByClassCall(i)
    /\ \E i \in Events("call") :
            /\ Trace[i].name = "init" /\ Trace[i].exit = "LoxReturn"
            /\ ~C9_ByClassCall(i)
            /\ Trace[i].result = C8_This(Trace[i])
    /\ \E i \in Events("call") :
            /\ Trace[i].name = "init" /\ Trace[i].exit = "ok"
            /\ C9_ByClassCall(i)
    /\ \E i \in Events("call") :
            /\ Trace[i].name = "init" /\ Trace[i].exit = "ok"
            /\ ~C9_ByClassCall(i)
            /\ Trace[i].result = C8_This(Trace[i])
    /\ pc = "exited"

\* C10: a script run exits with 65 exactly when a diagnostic was reported,
\* with 70 exactly when none was and a runtime error occurred, with 0
\* otherwise; more than one argument exits with 64 and runs nothing; the two
\* flags are never both set.
C10_ExitCodes ==
    /\ ~(had_error /\ had_runtime_error)
    /\ pc = "exited" =>
            IF argc > 2
            THEN exit_code = 64 /\ flow = <<"main">>
            ELSE /\ (exit_code = 65) <=> had_error
                 /\ (exit_code = 70) <=> (~had_error /\ had_runtime_error)
                 /\ (~had_error /\ ~had_runtime_error) => exit_code = 0

\* the number of newline characters of a source
Newlines(src) == Cardinality({i \in DOMAIN src : src[i] = "\n"})

\* whether _run has called scan_tokens in this run
Scanned == \E i \in DOMAIN flow : flow[i] = "scan"

\* C11: for every source scan_tokens returns a token sequence with exactly
\* one EOF token, the last one, whose line is 1 plus the number of newline
\* characters of the source.
C11_ScanEndsInOneEOF ==
    (argc = 2 /\ Scanned) =>
        /\ crash # "ValueError"
        /\ tokens # <<>>
        /\ \A i \in DOMAIN tokens :
                (tokens[i].token_type = "EOF") <=> (i = Len(tokens))
        /\ tokens[Len(tokens)].line = 1 + Newlines(source)

\* whether _run has called parse in this run
Parsed == \E i \in DOMAIN flow : flow[i] = "parse"

\* whether a statement is, or holds in a block, a body or a branch, the
\* placeholder that _declaration returns after a parse error
RECURSIVE HasPlaceholder(_)
HasPlaceholder(stmt) ==
    IF stmt = None THEN TRUE
    ELSE CASE stmt.s = "Block" ->
                \E i \in DOMAIN stmt.statements :
                    HasPlaceholder(stmt.statements[i])
           [] stmt.s = "Function" ->
                \E i \in DOMAIN stmt.body : HasPlaceholder(stmt.body[i])
           [] stmt.s = "Class" ->
                \E i \in DOMAIN stmt.methods : HasPlaceholder(stmt.methods[i])
           [] stmt.s = "If" ->
                \/ HasPlaceholder(stmt.then_branch)
                \/ stmt.else_branch # None /\ HasPlaceholder(stmt.else_branch)
           [] stmt.s = "While" -> HasPlaceholder(stmt.body)
           [] OTHER -> FALSE

\* C12: parse returns a list and lets no ParseError out; the cursor stays
\* inside the token list, at every call of _declaration and at the end; a
\* placeholder is in the list, or inside a statement of it, only when a
\* diagnostic was reported.
C12_ParseReturns ==
    (argc = 2 /\ Parsed) =>
        /\ crash # "ParseError"
        /\ parser.current \in 0..(Len(tokens) - 1)
        /\ \A i \in DOMAIN parser.calls :
                /\ parser.calls[i].from \in 0..(Len(tokens) - 1)
                /\ parser.calls[i].at \in 0..(Len(tokens) - 1)
                /\ parser.calls[i].to \in 0..(Len(tokens) - 1)
        /\ (\E i \in DOMAIN parser.calls : parser.calls[i].k = "ParseError")
                => had_error
        /\ \A i \in DOMAIN statements :
                HasPlaceholder(statements[i]) => had_error

\* parse has returned a list with a placeholder and with a statement that
\* holds one in a block, after ParseErrors caught in _declaration
C12_Witness ==
    /\ argc = 2 /\ Parsed /\ crash = ""
    /\ \E i \in DOMAIN statements : statements[i] = None
    /\ \E i \in DOMAIN statements :
            /\ statements[i] # None /\ statements[i].s = "Block"
            /\ HasPlaceholder(statements[i])
    /\ \E i \in DOMAIN statements :
            /\ statements[i] # None /\ statements[i].s = "Function"
            /\ HasPlaceholder(statements[i])
    /\ \E i \in DOMAIN parser.calls : parser.calls[i].k = "ParseError"
    /\ had_error

\* whether call i of _declaration was made by parse itself, not by a _block
\* under another call
TopLevel(calls, i) ==
    ~\E j \in DOMAIN calls :
        calls[j].from < calls[i].from /\ calls[i].to <= calls[j].to

TopLevelCalls == {i \in DOMAIN parser.calls : TopLevel(parser.calls, i)}

\* C13 as stated: the length of the list that parse returns is the number of
\* top-level declarations parsed without a parse error.
C13_LengthCountsSuccesses ==
    (argc = 2 /\ Parsed) =>
        Len(statements) =
            Cardinality({i \in TopLevelCalls : parser.calls[i].k = "ok"})

\* C13: the length of the list that parse returns is the number of calls of
\* _declaration that parse made: the declarations parsed without a parse
\* error and one placeholder for each of the others.
C13_LengthCountsDeclarations ==
    (argc = 2 /\ Parsed) =>
        /\ Len(statements) = Cardinality(TopLevelCalls)
        /\ Cardinality({i \in DOMAIN statements : statements[i] # None})
            = Cardinality({i \in TopLevelCalls : parser.calls[i].k = "ok"})
        /\ Cardinality({i \in DOMAIN statements : statements[i] = None})
            = Cardinality({i \in TopLevelCalls :
                                parser.calls[i].k = "ParseError"})

\* parse has returned a list with statements and placeholders, after calls
\* of _declaration of its own and of blocks
C13_Witness ==
    /\ argc = 2 /\ Parsed /\ crash = ""
    /\ \E i \in DOMAIN statements : statements[i] = None
    /\ \E i \in DOMAIN statements : statements[i] # None
    /\ Cardinality(TopLevelCalls) < Len(parser.calls)
    /\ Cardinality({i \in TopLevelCalls : parser.calls[i].k = "ok"})
            < Len(statements)

\* the place in flow of the prompt for line j, and the steps taken for line
\* j: those between its prompt and the next one
PromptAt(j) ==
    CHOOSE i \in DOMAIN flow :
        /\ flow[i] = "prompt"
        /\ Cardinality({k \in 1..i : flow[k] = "prompt"}) = j

LineSteps(j) ==
    {flow[i] : i \in (PromptAt(j) + 1)..(IF j < Reads THEN PromptAt(j + 1) - 1
                                         ELSE Len(flow))}

\* the lines read so far whose statement the interpreter has executed, and
\* among them the lines print a; read after a line var a = 1;, and before any
Executed == {j \in 1..Reads : "interpret" \in LineSteps(j)}

PrintsDefined ==
    {j \in Executed : /\ stdin[j] = Line_print
                      /\ \E i \in 1..(j - 1) : stdin[i] = Line_var}

PrintsUndefined ==
    {j \in Executed : /\ stdin[j] = Line_print
                      /\ ~\E i \in 1..(j - 1) : stdin[i] = Line_var}

\* the number of print calls that wrote text
Written(text) == Cardinality({i \in DOMAIN stdout : stdout[i] = text})

\* C14: at the prompt every line but an empty one is scanned and parsed, and
\* resolved and executed exactly when it has no static error of its own,
\* whatever the lines before it reported, against the globals that the lines
\* before it defined; had_error is clear at every prompt and
\* had_runtime_error stays set; an empty line ends the loop.
C14_PromptRunsEveryLine ==
    /\ pc = "prompt" => ~had_error
    /\ \A j \in 1..Reads :
            IF stdin[j] = <<>>
            THEN j = Reads /\ pc = "exited" /\ exit_code = 0 /\ crash = ""
            ELSE "reset" \in LineSteps(j) =>
                    /\ {"scan", "parse"} \subseteq LineSteps(j)
                    /\ (stdin[j] \in {Line_var, Line_print})
                            <=> (j \in Executed)
                    /\ (stdin[j] # Line_parse_error)
                            <=> ("resolve" \in LineSteps(j))
    /\ Written("1") = Cardinality(PrintsDefined)
    /\ Written("Undefined variable a.\n[line 1]") = Cardinality(PrintsUndefined)
    /\ had_runtime_error <=> PrintsUndefined # {}
    /\ (pc = "exited" /\ crash = "") => (Reads > 0 /\ stdin[Reads] = <<>>)

\* a session in which lines are executed after a line with a parse error
\* and after a line with a runtime error, and the last one prints the global
\* that the line before it defined
C14_Witness ==
    /\ argc = 1 /\ Reads = 4 /\ pc = "prompt"
    /\ stdin[1] = Line_parse_error /\ stdin[2] = Line_print
    /\ stdin[3] = Line_var /\ stdin[4] = Line_print
    /\ had_runtime_error
    /\ Executed = {2, 3, 4}
    /\ PrintsUndefined = {2}
    /\ PrintsDefined = {4}

\* whether the enclosing links from environment e lead to the global
\* environment within fuel steps
RECURSIVE EndsAtGlobals(_, _, _)
EndsAtGlobals(envs, e, fuel) ==
    IF e = GlobalsEnv THEN TRUE
    ELSE IF e \notin DOMAIN envs \/ fuel = 0 THEN FALSE
    ELSE EndsAtGlobals(envs, envs[e].enclosing, fuel - 1)

\* the environments that a value refers to: the closure of a function, the
\* closures of the methods of a class
ClosuresOf(v) ==
    CASE v.t = "LoxFunction" -> {v.closure}
      [] v.t = "LoxClass" -> {v.methods[m].closure : m \in DOMAIN v.methods}
      [] OTHER -> {}

\* the environments referred to by the interpreter, by the values held in
\* environments and in fields, and by the blocks, calls and variable
\* accesses made so far
EnvironmentsInUse ==
    {interp.environment}
    \cup UNION {UNION {ClosuresOf(interp.envs[e].values[n]) :
                        n \in DOMAIN interp.envs[e].values} :
                    e \in DOMAIN interp.envs}
    \cup UNION {UNION {ClosuresOf(interp.instances[o].fields[n]) :
                        n \in DOMAIN interp.instances[o].fields} :
                    o \in DOMAIN interp.instances}
    \cup {Trace[i].before : i \in Events("block")}
    \cup {Trace[i].environment : i \in Events("call") \cup Events("access")}
    \cup {Trace[i].closure : i \in Events("call")}

\* C15, first part: the global environment encloses nothing; every other
\* environment encloses one created before it, so that the links from every
\* environment, among them the current one, the closures of the function
\* values and the environments of the bound methods, end at the global
\* environment.
C15_ChainsEndAtGlobals ==
    /\ interp.envs[GlobalsEnv].enclosing = 0
    /\ \A e \in DOMAIN interp.envs :
            /\ e # GlobalsEnv => interp.envs[e].enclosing \in 1..(e - 1)
            /\ EndsAtGlobals(interp.envs, e, Len(interp.envs))
    /\ EnvironmentsInUse \subseteq DOMAIN interp.envs

\* C15, second part: no step removes an environment or assigns to the
\* enclosing link of one.
C15_LinksNeverReassigned ==
    [][/\ Len(interp'.envs) >= Len(interp.envs)
       /\ \A e \in DOMAIN interp.envs :
            interp'.envs[e].enclosing = interp.envs[e].enclosing]_vars

\* C15: in every state the enclosing links end at the global environment,
\* and no step reassigns one.
C15_EnvironmentChains == []C15_ChainsEndAtGlobals /\ C15_LinksNeverReassigned

\* a run that has bound a method and called it: the environment of the bound
\* method holds this, the methods of a class in the globals close over the
\* environment that holds super, and calls ran in environments three links
\* away from the global one
C15_Witness ==
    /\ pc = "exited"
    /\ \E e \in DOMAIN interp.envs :
            /\ "this" \in DOMAIN interp.envs[e].values
            /\ interp.envs[e].enclosing # GlobalsEnv
    /\ \E n \in DOMAIN interp.envs[GlobalsEnv].values :
            /\ interp.envs[GlobalsEnv].values[n].t = "LoxClass"
            /\ ClosuresOf(interp.envs[GlobalsEnv].values[n]) # {}
            /\ GlobalsEnv \notin ClosuresOf(interp.envs[GlobalsEnv].values[n])
    /\ \E i \in Events("call") :
            interp.envs[interp.envs[Trace[i].environment].enclosing].enclosing
                \notin {0, GlobalsEnv}

\* the outcome the checks of visit_call_expr have, in their order, for what
\* a dispatch event says they saw
C16_Outcome(d) ==
    IF ~d.callable THEN "not callable"
    ELSE IF d.evaluated # d.arity THEN "arity"
    ELSE "call"

\* what runtime_error prints for a failed check
C16_Report(d) ==
    (IF d.outcome = "not callable"
     THEN "Can only call functions and classes."
     ELSE "Expected " \o NatToStr(d.arity) \o " arguments but got "
          \o NatToStr(d.evaluated) \o ".")
    \o "\n[line " \o NatToStr(d.line) \o "]"

\* C16, the order: the history of a call expression has the events of the
\* callee, then those of the arguments, then the checks, which see every
\* argument evaluated and decide callable first, arity second, dispatch last.
C16_ChecksAfterArguments ==
    \A i \in Events("dispatch") :
        /\ Trace[i].from <= Trace[i].callee_at
        /\ Trace[i].callee_at <= Trace[i].args_at
        /\ Trace[i].args_at = i - 1
        /\ Trace[i].out_from <= Trace[i].out_at
        /\ Trace[i].evaluated = Trace[i].args
        /\ Trace[i].outcome = C16_Outcome(Trace[i])

\* C16, the failures: after a failed check nothing is executed, the history
\* has only the unwinding of the enclosing blocks and calls, and the output
\* is what the callee and the arguments had printed and then the report.
C16_FailedCallRunsNoBody ==
    \A i \in Events("dispatch") :
        Trace[i].outcome # "call" =>
            /\ \A j \in DOMAIN Trace :
                    j > i => /\ Trace[j].ev \in {"block", "call"}
                             /\ Trace[j].exit = "LoxRuntimeError"
            /\ had_runtime_error
            /\ Len(stdout) = Trace[i].out_at + 1
            /\ stdout[Len(stdout)] = C16_Report(Trace[i])

\* C16, left to right: the output of the catalogue's two programs whose
\* callee and arguments print
C16_LeftToRight ==
    /\ (source = Prog_call_not_callable /\ exit_code = 70) =>
            stdout = <<"callee", "1", "2",
                       "Can only call functions and classes.\n[line 3]">>
    /\ (source = Prog_call_arity /\ exit_code = 70) =>
            stdout = <<"callee", "3", "body", "callee", "1", "2",
                       "Expected 1 arguments but got 2.\n[line 5]">>

\* C16: a call expression evaluates the callee, then the arguments left to
\* right, then checks callable, then arity, then dispatches; a failed check
\* comes after the side effects of all arguments and runs no body.
C16_CallOrder ==
    /\ C16_ChecksAfterArguments
    /\ C16_FailedCallRunsNoBody
    /\ C16_LeftToRight

\* runs where a callee and two arguments had printed when the callable check
\* failed, and when the arity check failed after an earlier call was
\* dispatched
C16_Witness ==
    \E i \in Events("dispatch") :
        /\ Trace[i].outcome # "call"
        /\ Trace[i].args = 2
        /\ Trace[i].out_at = Trace[i].out_from + 3
        /\ Trace[i].callee_at > Trace[i].from
        /\ Trace[i].args_at > Trace[i].callee_at
        /\ exit_code = 70
        /\ \/ Trace[i].outcome = "not callable"
           \/ /\ Trace[i].outcome = "arity"
              /\ \E j \in Events("dispatch") :
                    j < i /\ Trace[j].outcome = "call" /\ Trace[j].args = 1

\* what the resolver prints for a name declared again in its scope
C17_Report(e) ==
    "[line " \o NatToStr(e.line) \o "] Error at \"" \o e.lexeme
    \o "\": Already a variable with this name in this scope."

C17_Declares == IF resolver = None THEN <<>> ELSE resolver.declares

\* the declarations of a name that its innermost, non-global scope already has
C17_LocalDuplicates ==
    {i \in DOMAIN C17_Declares :
        /\ C17_Declares[i].depth > 0
        /\ C17_Declares[i].lexeme \in C17_Declares[i].scope}

\* the declarations at global scope of a name declared there before
C17_GlobalDuplicates ==
    {i \in DOMAIN C17_Declares :
        /\ C17_Declares[i].depth = 0
        /\ \E j \in 1..(i - 1) :
              /\ C17_Declares[j].depth = 0
              /\ C17_Declares[j].lexeme = C17_Declares[i].lexeme}

\* C17, the resolver: a declaration is reported exactly when its non-global
\* scope has the name already; then had_error is set, no statement is
\* executed and the script exits with 65.
C17_LocalDuplicateReported ==
    /\ \A i \in DOMAIN C17_Declares :
            C17_Declares[i].reported =
                IF i \in C17_LocalDuplicates
                THEN <<C17_Report(C17_Declares[i])>> ELSE <<>>
    /\ C17_LocalDuplicates # {} =>
            /\ had_error
            /\ pc \in {"returned", "exited"}
            /\ pc = "exited" /\ crash = "" => exit_code = 65
            /\ interp.trace = <<>>
            /\ \A k \in DOMAIN flow : flow[k] # "interpret"

C17_TopLevelDeclaration(j) ==
    /\ statements[j] # None
    /\ statements[j].s \in {"Var", "Function", "Class"}

\* the executed top-level declarations that declare their name again and
\* are the last executed so far to declare it
C17_LastRedeclarations ==
    {j \in 1..(next_stmt - 1) :
        /\ j \in DOMAIN statements
        /\ C17_TopLevelDeclaration(j)
        /\ \E k \in 1..(j - 1) :
              /\ C17_TopLevelDeclaration(k)
              /\ statements[k].name.lexeme = statements[j].name.lexeme
        /\ \A k \in (j + 1)..(next_stmt - 1) :
              ~ /\ C17_TopLevelDeclaration(k)
                /\ statements[k].name.lexeme = statements[j].name.lexeme}

C17_Global(name) == interp.envs[GlobalsEnv].values[name]

\* C17, at run time: the global binding has the value of the last executed
\* declaration of its name (in the catalogue no redeclared global is
\* assigned to, and the initializers of the redeclarations are literals)
C17_GlobalRedeclarationReplaces ==
    \A j \in C17_LastRedeclarations :
        /\ statements[j].name.lexeme \in DOMAIN interp.envs[GlobalsEnv].values
        /\ CASE statements[j].s = "Function" ->
                    C17_Global(statements[j].name.lexeme)
                        = LoxFunction(statements[j], GlobalsEnv, FALSE)
             [] statements[j].s = "Class" ->
                    /\ C17_Global(statements[j].name.lexeme).t = "LoxClass"
                    /\ C17_Global(statements[j].name.lexeme).name
                            = statements[j].name.lexeme
             [] statements[j].initializer = None ->
                    C17_Global(statements[j].name.lexeme) = None
             [] OTHER ->
                    /\ statements[j].initializer.e = "Literal"
                    /\ C17_Global(statements[j].name.lexeme)
                            = statements[j].initializer.value

\* C17: a name declared twice in one non-global scope is reported by the
\* resolver and the program is not executed; declared twice at global scope
\* it is not reported and the second declaration replaces the value.
C17_DuplicateDeclarations ==
    /\ C17_LocalDuplicateReported
    /\ C17_GlobalRedeclarationReplaces

\* a script with duplicates in a block, among parameters and between a
\* parameter and the body, exited with 65 after the reports; or a script
\* with four global redeclarations run to its end without a report
C17_Witness ==
    \/ /\ Cardinality(C17_LocalDuplicates) >= 5
       /\ Len(stdout) = Cardinality(C17_LocalDuplicates)
       /\ exit_code = 65
    \/ /\ Cardinality(C17_GlobalDuplicates) >= 4
       /\ C17_LocalDuplicates = {}
       /\ C17_LastRedeclarations # {}
       /\ ~had_error
       /\ pc = "returned"
       /\ next_stmt = Len(statements) + 1

C18_Fors == IF parser = None THEN <<>> ELSE parser.fors

\* the loop body, the condition and the statement that the claim gives for
\* the clauses and the body of one for statement
C18_Body(f) ==
    IF f.increment # None THEN Block(<<f.body, Expression(f.increment)>>)
    ELSE f.body

C18_Condition(f) ==
    IF f.condition # None THEN f.condition ELSE Literal(PyBool(TRUE))

C18_Statement(f) ==
    IF f.initializer # None
    THEN Block(<<f.initializer, While(C18_Condition(f), C18_Body(f))>>)
    ELSE While(C18_Condition(f), C18_Body(f))

\* C18, the consequence: a loop whose body prints its variable prints the
\* values before each increment, and the variable of the initializer is gone
\* after the loop (the global k is printed)
C18_IncrementAfterBody ==
    (source = Prog_for_clauses /\ pc = "returned") =>
        stdout = <<"0", "1", "0", "1", "g", "2">>

\* C18: for every combination of clauses _for_statement returns
\* Block[I, While(C or true, Block[B, Expression(U)] or B)] or the bare While,
\* so the increment runs after the body and the initializer's variable is
\* scoped to the loop.
C18_ForDesugared ==
    /\ \A i \in DOMAIN C18_Fors :
            C18_Fors[i].result = C18_Statement(C18_Fors[i])
    /\ C18_IncrementAfterBody

\* a parse that made a for statement of each of the eight combinations of
\* clauses, run to its end
C18_Witness ==
    /\ \A I \in BOOLEAN, C \in BOOLEAN, U \in BOOLEAN :
          \E i \in DOMAIN C18_Fors :
              /\ (C18_Fors[i].initializer # None) = I
              /\ (C18_Fors[i].condition # None) = C
              /\ (C18_Fors[i].increment # None) = U
    /\ \E i \in DOMAIN C18_Fors :
          /\ C18_Fors[i].initializer # None
          /\ C18_Fors[i].initializer.s = "Expression"
    /\ pc = "returned"
    /\ Len(stdout) = 6

C19_Assigns == IF parser = None THEN <<>> ELSE parser.assigns

\* C19: after L "=" R, _assignment returns Assign(n, R) for L = Variable(n)
\* and Set(o, n, R) for L = Get(o, n) without a report; for any other L it
\* reports once, sets had_error and returns L; it never raises, and the
\* cursor stays where the parse of R left it.
C19_AssignmentTargets ==
    \A i \in DOMAIN C19_Assigns :
        /\ C19_Assigns[i].k = "ok"
        /\ C19_Assigns[i].current = C19_Assigns[i].value_end
        /\ CASE C19_Assigns[i].target.e = "Variable" ->
                  /\ C19_Assigns[i].result
                        = Assign(C19_Assigns[i].target.name,
                                 C19_Assigns[i].value)
                  /\ C19_Assigns[i].reported = 0
             [] C19_Assigns[i].target.e = "Get" ->
                  /\ C19_Assigns[i].result
                        = Set(C19_Assigns[i].target.obj,
                              C19_Assigns[i].target.name,
                              C19_Assigns[i].value)
                  /\ C19_Assigns[i].reported = 0
             [] OTHER ->
                  /\ C19_Assigns[i].result = C19_Assigns[i].target
                  /\ C19_Assigns[i].reported = 1
                  /\ C19_Assigns[i].had_error
                  /\ had_error

\* a parse with a chained assignment, a Get target and three invalid
\* targets, every statement of which was parsed to its end
C19_Witness ==
    /\ \A kind \in {"Variable", "Get", "Literal", "Grouping", "Binary"} :
          \E i \in DOMAIN C19_Assigns : C19_Assigns[i].target.e = kind
    /\ \E i \in DOMAIN C19_Assigns :
          /\ C19_Assigns[i].target.e = "Variable"
          /\ C19_Assigns[i].value.e = "Assign"
    /\ \E i \in DOMAIN C19_Assigns :
          /\ C19_Assigns[i].target.e = "Binary"
          /\ C19_Assigns[i].value.e = "Binary"
    /\ Len(statements) = 9
    /\ \A j \in DOMAIN statements : statements[j] # None
    /\ statements[5].s = "Expression"
    /\ statements[5].expression.e = "Literal"
    /\ stdout = <<"[line 4] Error at \"=\": Invalid assignment target.",
                  "[line 6] Error at \"=\": Invalid assignment target.",
                  "[line 7] Error at \"=\": Invalid assignment target.">>
    /\ exit_code = 65

C20_Calls == IF parser = None THEN <<>> ELSE parser.calls

\* the token at cursor c (the cursor counts from 0)
C20_Token(c) == parser.tokens[c + 1].token_type

\* the cursors where synchronize stops: at EOF, just past a ";", just
\* before a token that begins a declaration or a statement
C20_Stop(c) ==
    \/ C20_Token(c) = "EOF"
    \/ c >= 1 /\ C20_Token(c - 1) = "SEMICOLON"
    \/ C20_Token(c) \in {"CLASS", "FUN", "VAR", "FOR", "IF", "WHILE",
                         "PRINT", "RETURN"}

\* the cursor after the offending token at cursor c is discarded; EOF is
\* not discarded
C20_Discarded(c) == IF C20_Token(c) = "EOF" THEN c ELSE c + 1

\* C20, progress: every call of _declaration is made before EOF and leaves
\* the cursor strictly further on, at EOF at the latest, and parse returns
\* with the cursor at EOF
C20_DeclarationAdvances ==
    /\ \A i \in DOMAIN C20_Calls :
            /\ C20_Token(C20_Calls[i].from) # "EOF"
            /\ C20_Calls[i].from < C20_Calls[i].to
            /\ C20_Calls[i].to < Len(parser.tokens)
            /\ C20_Calls[i].k \in {"ok", "ParseError"}
    /\ parser # None => C20_Token(parser.current) = "EOF"

\* C20, recovery: after a parse error at cursor at, the cursor is left at
\* the first stop at or after the cursor that discarding the offending token
\* gives (so just past the offending token when that is a ";")
C20_SynchronizeStops ==
    \A i \in DOMAIN C20_Calls :
        C20_Calls[i].k = "ParseError" =>
            /\ C20_Calls[i].to >= C20_Discarded(C20_Calls[i].at)
            /\ C20_Stop(C20_Calls[i].to)
            /\ \A c \in C20_Discarded(C20_Calls[i].at)..(C20_Calls[i].to - 1) :
                    ~C20_Stop(c)

\* C20: parse terminates: every call of _declaration moves the cursor on,
\* and after a parse error synchronize discards the offending token and
\* stops just past the next ";", just before the next keyword of a
\* declaration or statement, or at EOF, whichever comes first.
C20_ParseTerminates ==
    /\ C20_DeclarationAdvances
    /\ C20_SynchronizeStops

\* a parse with recoveries that stopped past a ";" some tokens on, past an
\* offending ";", before a keyword, and at EOF after an error at the first
\* token of the declaration; with a recovery inside a block that went past
\* its "}"; and with declarations that returned statements
C20_Witness ==
    /\ \E i \in DOMAIN C20_Calls :
          /\ C20_Calls[i].k = "ParseError"
          /\ C20_Calls[i].to > C20_Calls[i].at + 2
          /\ C20_Token(C20_Calls[i].to - 1) = "SEMICOLON"
          /\ C20_Token(C20_Calls[i].to) = "NUMBER"
    /\ \E i \in DOMAIN C20_Calls :
          /\ C20_Calls[i].k = "ParseError"
          /\ C20_Token(C20_Calls[i].at) = "SEMICOLON"
          /\ C20_Calls[i].to = C20_Calls[i].at + 1
          /\ C20_Token(C20_Calls[i].to) = "NUMBER"
    /\ \E i \in DOMAIN C20_Calls :
          /\ C20_Calls[i].k = "ParseError"
          /\ C20_Token(C20_Calls[i].to) = "PRINT"
          /\ C20_Token(C20_Calls[i].to - 1) # "SEMICOLON"
    /\ \E i \in DOMAIN C20_Calls :
          /\ C20_Calls[i].k = "ParseError"
          /\ C20_Calls[i].at = C20_Calls[i].from
          /\ C20_Calls[i].to = C20_Calls[i].from + 1
          /\ C20_Token(C20_Calls[i].to) = "EOF"
    /\ \E i \in DOMAIN C20_Calls :
          /\ C20_Calls[i].k = "ParseError"
          /\ C20_Token(C20_Calls[i].to) = "RIGHT_BRACE"
          /\ \E c \in C20_Calls[i].at..(C20_Calls[i].to - 1) :
                C20_Token(c) = "RIGHT_BRACE"
    /\ \E i \in DOMAIN C20_Calls : C20_Calls[i].k = "ok"
    /\ exit_code = 65

\* whether the lookup of visit_super_expr finds the method of the event e
C21_Found(e) == e.method \in DOMAIN e.superclass.methods

\* C21, the objects: super.m reads "super" in the nearest environment that
\* binds it and "this" in the nearest that binds "this", one link nearer,
\* which is the "this" of the calling method
C21_SameInstance ==
    \A i \in Events("super") :
        /\ Trace[i].this_env # 0
        /\ Trace[i].super_env # 0
        /\ interp.envs[Trace[i].this_env].enclosing = Trace[i].super_env
        /\ Trace[i].obj = interp.envs[Trace[i].this_env].values["this"]
        /\ Trace[i].obj.t = "LoxInstance"
        /\ Trace[i].superclass
                = interp.envs[Trace[i].super_env].values["super"]

\* C21, the result: a method the lookup finds is returned bound to that
\* object (a function of the same declaration, whose closure binds "this"
\* to it and encloses the method's closure); one it does not find raises
C21_BoundOrUndefined ==
    \A i \in Events("super") :
        IF C21_Found(Trace[i])
        THEN /\ Trace[i].k = "ok"
             /\ Trace[i].result.t = "LoxFunction"
             /\ Trace[i].result.declaration
                    = Trace[i].superclass.methods[Trace[i].method].declaration
             /\ "this" \in DOMAIN interp.envs[Trace[i].result.closure].values
             /\ interp.envs[Trace[i].result.closure].values["this"]
                    = Trace[i].obj
             /\ interp.envs[Trace[i].result.closure].enclosing
                    = Trace[i].superclass.methods[Trace[i].method].closure
        ELSE /\ Trace[i].k = "LoxRuntimeError"
             /\ Trace[i].msg
                    = "Undefined property \"" \o Trace[i].method \o "\"."

\* C21, the programs: the example of the claim prints A then B; a field
\* written through this in the superclass's method is read on the calling
\* instance, in the method and outside
C21_Output ==
    /\ (source = Prog_super /\ pc = "returned") => stdout = <<"A", "B">>
    /\ (source = Prog_super_fields /\ exit_code = 70) =>
            stdout = <<"A", "B", "3", "3",
                       "Undefined property \"nothing\".\n[line 5]">>

\* C21: super.m is the superclass's method m bound to the instance that
\* this denotes in the calling method; a method the lookup does not find
\* raises Undefined property.
C21_SuperBindsThis ==
    /\ C21_SameInstance
    /\ C21_BoundOrUndefined
    /\ C21_Output

\* a run with super.m directly in a method, in a function nested in a
\* method where m writes a field, and for a method that is not found
C21_Witness ==
    /\ \E i \in Events("super") :
          /\ C21_Found(Trace[i]) /\ Trace[i].distance = 2
    /\ \E i \in Events("super") :
          /\ C21_Found(Trace[i]) /\ Trace[i].distance > 2
          /\ "v" \in DOMAIN interp.instances[Trace[i].obj.ref].fields
    /\ \E i \in Events("super") :
          /\ ~C21_Found(Trace[i]) /\ Trace[i].k = "LoxRuntimeError"
    /\ exit_code = 70

\* the this and super expressions inside an expression
RECURSIVE C22_InExpr(_)
C22_InExpr(expr) ==
    CASE expr.e \in {"This", "Super"} -> {expr}
      [] expr.e \in {"Binary", "Logical"} ->
            C22_InExpr(expr.left) \cup C22_InExpr(expr.right)
      [] expr.e = "Call" ->
            C22_InExpr(expr.callee)
            \cup UNION {C22_InExpr(expr.arguments[i]) :
                            i \in DOMAIN expr.arguments}
      [] expr.e = "Grouping" -> C22_InExpr(expr.expression)
      [] expr.e = "Unary" -> C22_InExpr(expr.right)
      [] expr.e = "Get" -> C22_InExpr(expr.obj)
      [] expr.e = "Set" -> C22_InExpr(expr.obj) \cup C22_InExpr(expr.value)
      [] expr.e = "Assign" -> C22_InExpr(expr.value)
      [] OTHER -> {}

\* the same, for an expression that may be absent
C22_InOptional(expr) == IF expr = None THEN {} ELSE C22_InExpr(expr)

\* a this or super expression with the contexts its place in the program
\* gives it: class is NONE outside every class declaration, else SUBCLASS
\* or CLASS as the innermost one declares a superclass or not; function is
\* the kind of the innermost function or method
C22_Placed(nodes, class, function) ==
    {[id |-> n.keyword.id, e |-> n.e, line |-> n.keyword.line,
      class |-> class, function |-> function] : n \in nodes}

C22_ClassOf(stmt) == IF stmt.superclass # None THEN "SUBCLASS" ELSE "CLASS"

C22_MethodType(method) ==
    IF method.name.lexeme = "init" THEN "INITIALIZER" ELSE "METHOD"

\* the this and super expressions inside a statement that is in the class
\* context class and the function context function
RECURSIVE C22_InStmt(_, _, _)
C22_InStmt(stmt, class, function) ==
    CASE stmt.s \in {"Expression", "Print"} ->
            C22_Placed(C22_InExpr(stmt.expression), class, function)
      [] stmt.s = "Var" ->
            C22_Placed(C22_InOptional(stmt.initializer), class, function)
      [] stmt.s = "Return" ->
            C22_Placed(C22_InOptional(stmt.value), class, function)
      [] stmt.s = "Block" ->
            UNION {C22_InStmt(stmt.statements[i], class, function) :
                        i \in DOMAIN stmt.statements}
      [] stmt.s = "If" ->
            C22_Placed(C22_InExpr(stmt.condition), class, function)
            \cup C22_InStmt(stmt.then_branch, class, function)
            \cup (IF stmt.else_branch = None THEN {}
                  ELSE C22_InStmt(stmt.else_branch, class, function))
      [] stmt.s = "While" ->
            C22_Placed(C22_InExpr(stmt.condition), class, function)
            \cup C22_InStmt(stmt.body, class, function)
      [] stmt.s = "Function" ->
            UNION {C22_InStmt(stmt.body[i], class, "FUNCTION") :
                        i \in DOMAIN stmt.body}
      [] stmt.s = "Class" ->
            UNION {UNION {C22_InStmt(stmt.methods[m].body[i],
                                     C22_ClassOf(stmt),
                                     C22_MethodType(stmt.methods[m])) :
                            i \in DOMAIN stmt.methods[m].body} :
                        m \in DOMAIN stmt.methods}

\* every this and super of the program that was resolved
C22_Judged ==
    IF resolver = None \/ None \in {statements[j] : j \in DOMAIN statements}
    THEN {}
    ELSE UNION {C22_InStmt(statements[j], "NONE", "NONE") :
                    j \in DOMAIN statements}

C22_Keywords == IF resolver = None THEN <<>> ELSE resolver.keywords

C22_Error(k, msg) ==
    <<"[line " \o NatToStr(k.line) \o "] Error at \"" \o
      (IF k.e = "This" THEN "this" ELSE "super") \o "\": " \o msg>>

\* what the claim has reported for a this or super in its place
C22_Expected(k) ==
    CASE k.class = "NONE" /\ k.e = "This" ->
            C22_Error(k, "Can't use \"this\" outside of a class.")
      [] k.class = "NONE" /\ k.e = "Super" ->
            C22_Error(k, "Can't use \"super\" outside of a class.")
      [] k.class = "CLASS" /\ k.e = "Super" ->
            C22_Error(k, "Can't use \"super\" in a class with no superclass.")
      [] OTHER -> <<>>

\* C22: every this and super is judged once, in the class and function
\* context of its place in the program (so the contexts are restored on
\* leaving a declaration), and reported exactly when it is outside every
\* class or is a super whose innermost class has no superclass.
C22_ThisSuperJudgedByPlace ==
    /\ \A i \in DOMAIN C22_Keywords :
            \E k \in C22_Judged : k.id = C22_Keywords[i].id
    /\ (resolver # None /\ resolver.exc = "") =>
        \A k \in C22_Judged :
            /\ Cardinality({i \in DOMAIN C22_Keywords :
                                C22_Keywords[i].id = k.id}) = 1
            /\ \A i \in DOMAIN C22_Keywords :
                    C22_Keywords[i].id = k.id =>
                        /\ C22_Keywords[i].current_class = k.class
                        /\ C22_Keywords[i].current_function = k.function
                        /\ C22_Keywords[i].reported = C22_Expected(k)

\* a resolved program with this and super outside every class, in a function
\* outside, in a class without and with a superclass, in functions nested
\* in methods, in a nested class, and after the nested and the outer class
C22_Witness ==
    /\ \A e \in {"This", "Super"}, class \in {"NONE", "CLASS", "SUBCLASS"} :
          \E k \in C22_Judged : k.e = e /\ k.class = class
    /\ \E k \in C22_Judged :
          k.class = "SUBCLASS" /\ k.function = "FUNCTION" /\ k.e = "Super"
    /\ \E k \in C22_Judged :
          k.class = "NONE" /\ k.function = "FUNCTION" /\ k.e = "This"
    /\ \E k \in C22_Judged, n \in C22_Judged :
          /\ k.class = "SUBCLASS" /\ k.function = "METHOD" /\ k.e = "Super"
          /\ n.class = "CLASS" /\ n.e = "Super" /\ n.line < k.line
    /\ \E k \in C22_Judged, n \in C22_Judged :
          /\ k.class = "NONE" /\ k.function = "NONE"
          /\ n.class = "SUBCLASS" /\ n.line < k.line
    /\ Len(stdout) = 7
    /\ exit_code = 65

\* the falsy values of the claim: nil and false, nothing else
C23_Falsy(v) == v = None \/ v = PyBool(FALSE)

\* C23, the operands: the right operand of or is evaluated exactly when the
\* left value is falsy, that of and exactly when it is not; when it is not
\* evaluated nothing happens after the left operand and the result is the
\* left value itself
C23_ShortCircuit ==
    \A i \in Events("logical") :
        /\ Trace[i].right = IF Trace[i].operator = "OR"
                            THEN C23_Falsy(Trace[i].left)
                            ELSE ~C23_Falsy(Trace[i].left)
        /\ ~Trace[i].right =>
                /\ Trace[i].k = "ok"
                /\ Trace[i].result = Trace[i].left
                /\ i = Trace[i].left_at + 1

\* C23, the values: the output of the catalogue's program whose right
\* operands print; 0, the empty string and a function are truthy, and the
\* results are the operands' values, not Booleans
C23_OperandValues ==
    (source = Prog_logical /\ pc = "returned") =>
        stdout = <<"r1", "r1", "0", "0", "0", "", "nil", "false",
                   "r2", "r2", "nil", "nil", "2", "false", "<fn p>">>

\* C23: or evaluates its right operand iff the left is falsy, and iff it is
\* truthy; the result is the deciding operand's value unchanged; only nil
\* and false are falsy.
C23_LogicalOperators ==
    /\ C23_ShortCircuit
    /\ C23_OperandValues

\* a run where or and and each skipped and each evaluated a right operand
\* that is a call, with the left values nil, false, 0 and the empty string,
\* and with results that are not Booleans
C23_Witness ==
    /\ \A op \in {"OR", "AND"},
          left \in {None, PyBool(FALSE), Float(0, 1), PyStr("")} :
          \E i \in Events("logical") :
              /\ Trace[i].operator = op /\ Trace[i].left = left
              /\ Trace[i].right => i > Trace[i].left_at + 1
    /\ \E i \in Events("logical") :
          /\ Trace[i].right /\ Trace[i].k = "ok"
          /\ Trace[i].result = PyStr("r2")
    /\ \E i \in Events("logical") :
          /\ ~Trace[i].right /\ Trace[i].result.t = "LoxFunction"
    /\ pc = "returned"
    /\ Len(stdout) = 15

\* the binary operators other than +
C24_Operators ==
    {"MINUS", "STAR", "SLASH", "LESS", "LESS_EQUAL", "GREATER",
     "GREATER_EQUAL", "EQUAL_EQUAL", "BANG_EQUAL"}

\* the Numbers of the claim; a Boolean is not one
C24_Number(v) == v.t = "float"

\* C24, the check: both operands are evaluated, the left one first, and a
\* binary operator other than + raises Operands must be numbers exactly
\* when one of the two values is not a Number; the comparisons and the
\* equalities of two Numbers give a Boolean
C24_NumbersOrError ==
    \A i \in Events("binary") :
        /\ Trace[i].from <= Trace[i].left_at
        /\ Trace[i].left_at <= Trace[i].right_at
        /\ Trace[i].right_at = i - 1
        /\ Trace[i].operator \in C24_Operators =>
            IF C24_Number(Trace[i].left) /\ C24_Number(Trace[i].right)
            THEN /\ Trace[i].msg # "Operands must be numbers."
                 /\ Trace[i].k = "ok" \/ Trace[i].msg = "Division by zero error."
                 /\ (Trace[i].k = "ok" /\ Trace[i].operator
                        \notin {"MINUS", "STAR", "SLASH"}) =>
                            Trace[i].result.t = "bool"
            ELSE /\ Trace[i].k = "LoxRuntimeError"
                 /\ Trace[i].msg = "Operands must be numbers."

\* the output of a script that ends with the runtime error of line n
C24_Fails(program, printed, n) ==
    (source = program /\ pc = "exited") =>
        /\ exit_code = 70
        /\ stdout = printed \o <<"Operands must be numbers.\n[line "
                                 \o NatToStr(n) \o "]">>

\* C24, the programs: each operator on operands that are not both Numbers,
\* among them two nils, two Booleans, two strings and mixed types for == and
\* !=; the operands that print are evaluated left then right before the error
C24_Output ==
    /\ C24_Fails(Prog_equal_nil, <<"true", "false", "true", "nil", "nil">>, 5)
    /\ C24_Fails(Prog_equal_bool, <<>>, 1)
    /\ C24_Fails(Prog_equal_str, <<>>, 1)
    /\ C24_Fails(Prog_equal_mixed, <<>>, 1)
    /\ C24_Fails(Prog_not_equal_nil, <<>>, 1)
    /\ C24_Fails(Prog_minus_bool, <<"2", "true", "1">>, 3)
    /\ C24_Fails(Prog_star_str, <<"6">>, 2)
    /\ C24_Fails(Prog_slash_nil, <<"2">>, 2)
    /\ C24_Fails(Prog_less_str, <<>>, 1)
    /\ C24_Fails(Prog_less_equal_nil, <<"true">>, 2)
    /\ C24_Fails(Prog_greater_bool, <<"true">>, 2)
    /\ C24_Fails(Prog_greater_equal_str, <<"false">>, 2)

\* C24: every binary operator other than + evaluates both operands left
\* then right and raises Operands must be numbers unless both are Numbers,
\* == and != included; Booleans are not Numbers.
C24_BinaryOperandsMustBeNumbers ==
    /\ C24_NumbersOrError
    /\ C24_Output

\* a run that compared Numbers with ==, != and <, and then compared two
\* nils, each the result of a call that printed, and stopped with the error
C24_Witness ==
    /\ \E i \in Events("binary") :
          /\ Trace[i].operator = "EQUAL_EQUAL"
          /\ Trace[i].left = None /\ Trace[i].right = None
          /\ Trace[i].k = "LoxRuntimeError"
          /\ Trace[i].left_at > Trace[i].from
          /\ Trace[i].right_at > Trace[i].left_at
    /\ \A op \in {"EQUAL_EQUAL", "BANG_EQUAL", "LESS"} :
          \E i \in Events("binary") :
              /\ Trace[i].operator = op /\ Trace[i].k = "ok"
              /\ Trace[i].result.t = "bool"
    /\ exit_code = 70
    /\ Len(stdout) = 6

\* C25: every Variable, Assign, This and Super node is usable as a key of the
\* side table of resolved depths, so no run ends in the host's TypeError for
\* an unhashable key: resolving and evaluating an assignment whose value
\* contains a call fails, if at all, only with a Lox runtime error.
C25_NodesUsableAsKeys == crash # "TypeError"

\* whether the superclass clause of the class statement of the event e
\* evaluated to something that is not a class
C26_NotAClass(e) == e.clause /\ e.superclass.t # "LoxClass"

\* C26, the environment: the class statement ends in the environment it
\* began in, whether it pushed the environment holding super or raised
C26_EnvironmentRestored ==
    \A i \in Events("class") : Trace[i].after = Trace[i].before

\* C26, the binding: a class statement that does not raise binds its name
\* in the current environment to the class it made, of that name, that
\* superclass and the declared methods, and changes no other binding
C26_NameBound ==
    \A i \in Events("class") :
        Trace[i].k = "ok" =>
            /\ ~C26_NotAClass(Trace[i])
            /\ Trace[i].klass.t = "LoxClass"
            /\ Trace[i].klass.name = Trace[i].name
            /\ Trace[i].klass.superclass = Trace[i].superclass
            /\ DOMAIN Trace[i].klass.methods = Trace[i].methods
            /\ DOMAIN Trace[i].values_after
                    = DOMAIN Trace[i].values_before \cup {Trace[i].name}
            /\ \A n \in DOMAIN Trace[i].values_after :
                    Trace[i].values_after[n]
                        = IF n = Trace[i].name THEN Trace[i].klass
                          ELSE Trace[i].values_before[n]

\* C26, the closures: with a superclass every method captures the one new
\* environment that encloses the current one and binds only super, to the
\* superclass; without, every method captures the current environment
C26_Closures ==
    \A i \in Events("class") :
        \A c \in Trace[i].closures :
            /\ c.is_initializer <=> (c.method = "init")
            /\ IF Trace[i].clause
               THEN /\ c.closure = Trace[i].made + 1
                    /\ c.enclosing = Trace[i].before
                    /\ DOMAIN c.values = {"super"}
                    /\ \A n \in DOMAIN c.values :
                            c.values[n] = Trace[i].superclass
               ELSE c.closure = Trace[i].before

\* C26, the error: a superclass clause whose value is not a class raises
\* Superclass must be a class, and then no class is made and the bindings
\* of the current environment are the ones before the statement
C26_SuperclassMustBeClass ==
    \A i \in Events("class") :
        /\ C26_NotAClass(Trace[i]) <=> (Trace[i].k # "ok")
        /\ Trace[i].k # "ok" =>
                /\ Trace[i].k = "LoxRuntimeError"
                /\ Trace[i].msg = "Superclass must be a class."
                /\ Trace[i].klass = None
                /\ Trace[i].values_after = Trace[i].values_before

\* C26, the programs: classes with and without a superclass declared at the
\* top level, in a block and in a function; a number and nil as superclass
C26_Output ==
    /\ (source = Prog_class_env /\ pc = "exited") =>
            exit_code = 0 /\ stdout = <<"1", "1", "E", "A">>
    /\ (source = Prog_superclass_number /\ pc = "exited") =>
            /\ exit_code = 70
            /\ stdout = <<"b", "Superclass must be a class.\n[line 4]">>
            /\ interp.envs[GlobalsEnv].values["B"].t # "LoxClass"
    /\ (source = Prog_superclass_local /\ pc = "exited") =>
            /\ exit_code = 70
            /\ stdout = <<"call", "Superclass must be a class.\n[line 3]">>

\* C26: a class statement leaves the current environment as it was and
\* binds its name there to the new class, whose methods capture the
\* environment holding super when there is a superclass; a superclass that
\* is not a class raises Superclass must be a class before the name is
\* defined, leaving the bindings unchanged.
C26_ClassStatement ==
    /\ C26_EnvironmentRestored
    /\ C26_NameBound
    /\ C26_Closures
    /\ C26_SuperclassMustBeClass
    /\ C26_Output

\* a run that declared classes with methods, with and without a superclass,
\* in the global environment and in a local one, and went on to print
C26_Witness ==
    /\ \A clause \in BOOLEAN, global \in BOOLEAN :
          \E i \in Events("class") :
              /\ Trace[i].k = "ok"
              /\ Trace[i].clause = clause
              /\ (Trace[i].before = GlobalsEnv) = global
              /\ Trace[i].closures # {}
    /\ Len(stdout) = 4

\* a run whose class statement named, in a local environment that had
\* bindings, a superclass that is not a class
C26_WitnessNotAClass ==
    \E i \in Events("class") :
        /\ C26_NotAClass(Trace[i])
        /\ Trace[i].before # GlobalsEnv
        /\ DOMAIN Trace[i].values_before # {}

====
